---- MODULE Spec2Model ----
(***************************************************************************)
(* Model of the AI gateway: the per-key token-bucket rate limiter, the     *)
(* in-memory response cache, the guardrail (PII) stage, the chat           *)
(* completions handler with its two provider adapters, and the Anthropic   *)
(* request / response / stream transcoding.                                *)
(*                                                                         *)
(* Four specifications share the variables:                                *)
(*   SpecRateLimiter  RateLimiter.isAllowed called for keys as time passes *)
(*   SpecTransform    AnthropicProvider.convertRequest / convertResponse   *)
(*   SpecStream       the streaming loop of AnthropicProvider              *)
(*   Spec             the whole request pipeline of chatCompletionsHandler *)
(***************************************************************************)
EXTENDS Integers, Sequences, FiniteSets, TLC

VARIABLES
    now,               \* Date.now(), in ms
    maxTokens,         \* RateLimiter.maxTokens = config.rate_limits.per_minute
    rateLimitStore,    \* Map<string, RateLimitEntry>
    rlLog,             \* history of isAllowed calls: [key, at, allowed]
    transformPc,       \* which conversion runs: "request", "response", then "done"
    openaiRequest,     \* argument of convertRequest
    anthropicRequest,  \* result of convertRequest
    anthropicResponse, \* argument of convertResponse
    openaiResponse,    \* result of convertResponse
    streamPc,          \* the streaming loop: "reading", then "closed"
    upstream,          \* the data lines the upstream sends, in order
    wire,              \* the upstream bytes not yet read, as fragments
    frames,            \* the frames enqueued on the outbound stream
    guardrailsConfig,  \* config.guardrails.data_privacy: [enabled, mode]
    store,             \* the cache: Map<string, CacheEntry>
    requests,          \* the requests in flight: one record per request
    upstreamCalls,     \* number of upstream calls made so far
    adapterCall        \* one chatCompletions call of an adapter and its timer

rlVars == <<now, maxTokens, rateLimitStore, rlLog>>

transformVars ==
    <<transformPc, openaiRequest, anthropicRequest, anthropicResponse, openaiResponse>>

streamVars == <<streamPc, upstream, wire, frames>>

pipeVars == <<guardrailsConfig, store, requests, upstreamCalls>>

callVars == <<adapterCall>>

vars == <<rlVars, transformVars, streamVars, pipeVars, callVars>>

(***************************************************************************)
(* Bounds of the model.                                                    *)
(***************************************************************************)
TicksPerMinute == 4     \* the clock advances in steps of 60000 / TicksPerMinute ms
MaxTicks == 6           \* the clock stops after MaxTicks steps
MaxPerMinute == 3       \* rate_limits.per_minute is drawn from 1..MaxPerMinute
MaxCalls == 5           \* isAllowed calls in one run of SpecRateLimiter
MaxMessages == 3        \* messages of a request given to convertRequest
MaxBlocks == 3          \* content blocks of a response given to convertResponse

MinuteMs == 60 * 1000
TickMs == MinuteMs \div TicksPerMinute

Keys == {"k1", "k2"}

(***************************************************************************)
(* RateLimiter                                                             *)
(***************************************************************************)
\* Mutant: the refill is not capped.
MinUncapped(a, b) == b

\* Math.min
Min(a, b) == IF a < b THEN a ELSE b

\* Mutant: the bucket refills at twice the configured rate.
RefillRateDouble(max) == 2 * max

\* new RateLimiter(maxTokens): refillRate = maxTokens
RefillRate(max) == max

\* Mutant: the first call of a key does not consume a token.
InitialTokensFull(max) == max

\* tokens of the entry created for an unknown key
InitialTokens(max) == max - 1

\* Mutant: the refill rate taken per hour instead of per minute.
TokensToAddPerHour(timePassed, rate) == (timePassed * rate) \div (60 * MinuteMs)

\* Math.floor((timePassed / (60 * 1000)) * refillRate).  The code computes the
\* quotient in doubles; for every time and rate of this model (multiples of
\* TickMs, rates up to MaxPerMinute) the double result equals the exact one.
TokensToAdd(timePassed, rate) == (timePassed * rate) \div MinuteMs

\* Mutant: one bucket for all keys: setting a key sets every key.
MapSetShared(map, key, entry) == [x \in (DOMAIN map) \cup {key} |-> entry]

\* Mutant: setting a key drops every other key.
MapSetAlone(map, key, entry) == [x \in {key} |-> entry]

\* Map.set(key, entry)
MapSet(map, key, entry) ==
    [x \in (DOMAIN map) \cup {key} |-> IF x = key THEN entry ELSE map[x]]

\* Mutant: the write of an admitted call is lost when the bucket holds its
\* last token (two calls read the same count and both write it back).
IsAllowedLostUpdate(rl, max, key, t) ==
    IF key \notin DOMAIN rl
    THEN [allowed |-> TRUE,
          store |-> MapSet(rl, key, [tokens |-> max - 1, lastRefill |-> t])]
    ELSE IF rl[key].tokens > 1
         THEN [allowed |-> TRUE,
               store |-> MapSet(rl, key, [rl[key] EXCEPT !.tokens = @ - 1])]
         ELSE [allowed |-> rl[key].tokens > 0, store |-> rl]

\* Mutant: a rejected call stamps the bucket with the time of the call.
IsAllowedStamps(rl, max, key, t) ==
    IF key \notin DOMAIN rl
    THEN [allowed |-> TRUE,
          store |-> MapSet(rl, key, [tokens |-> max - 1, lastRefill |-> t])]
    ELSE IF rl[key].tokens > 0
         THEN [allowed |-> TRUE,
               store |-> MapSet(rl, key, [rl[key] EXCEPT !.tokens = @ - 1])]
         ELSE [allowed |-> FALSE,
               store |-> MapSet(rl, key, [rl[key] EXCEPT !.lastRefill = t])]

\* isAllowed(key) at time t on the store rl: the result and the store after it
IsAllowed(rl, max, key, t) ==
    IF key \notin DOMAIN rl
    THEN [allowed |-> TRUE,
          store |-> MapSet(rl, key, [tokens |-> InitialTokens(max), lastRefill |-> t])]
    ELSE LET entry == rl[key]
             timePassed == t - entry.lastRefill
             tokensToAdd == TokensToAdd(timePassed, RefillRate(max))
             refilled == IF tokensToAdd > 0
                         THEN [tokens |-> Min(max, entry.tokens + tokensToAdd),
                               lastRefill |-> t]
                         ELSE entry
         IN IF refilled.tokens > 0
            THEN [allowed |-> TRUE,
                  store |-> MapSet(rl, key, [refilled EXCEPT !.tokens = @ - 1])]
            ELSE [allowed |-> FALSE, store |-> MapSet(rl, key, refilled)]

InitRateLimiter ==
    /\ now = 0
    /\ maxTokens \in 1..MaxPerMinute
    /\ rateLimitStore = << >>
    /\ rlLog = << >>
    /\ transformPc = "idle"
    /\ openaiRequest = << >>
    /\ anthropicRequest = << >>
    /\ anthropicResponse = << >>
    /\ openaiResponse = << >>
    /\ streamPc = "idle"
    /\ upstream = << >>
    /\ wire = << >>
    /\ frames = << >>
    /\ guardrailsConfig = [enabled |-> FALSE, mode |-> "log"]
    /\ store = << >>
    /\ requests = << >>
    /\ upstreamCalls = 0
    /\ adapterCall = << >>

\* time passes
Tick ==
    /\ now < MaxTicks * TickMs
    /\ now' = now + TickMs
    /\ UNCHANGED <<callVars, maxTokens, rateLimitStore, rlLog, transformVars, streamVars, pipeVars>>

\* rateLimiter.isAllowed(key)
RateLimiterCall(key) ==
    /\ Len(rlLog) < MaxCalls
    /\ LET r == IsAllowed(rateLimitStore, maxTokens, key, now)
       IN /\ rateLimitStore' = r.store
          /\ rlLog' = Append(rlLog, [key |-> key, at |-> now, allowed |-> r.allowed])
    /\ UNCHANGED <<callVars, now, maxTokens, transformVars, streamVars, pipeVars>>

NextRateLimiter ==
    \/ Tick
    \/ \E key \in Keys : RateLimiterCall(key)

SpecRateLimiter == InitRateLimiter /\ [][NextRateLimiter]_vars

\* the calls made for one key, in order
CallsOf(key) == SelectSeq(rlLog, LAMBDA e : e.key = key)

(***************************************************************************)
(* Claims about the rate limiter (checked under SpecRateLimiter).          *)
(***************************************************************************)

\* C3 as stated: for a fresh key and capacity N, N calls made within one minute
\* of the first are all admitted and the (N+1)-th call made within that same
\* minute is rejected.
C3_SameMinute ==
    \A key \in Keys :
        LET c == CallsOf(key)
        IN /\ \A i \in 1..Len(c) :
                  (i <= maxTokens /\ c[i].at - c[1].at < MinuteMs) => c[i].allowed
           /\ (Len(c) > maxTokens /\ c[maxTokens + 1].at - c[1].at < MinuteMs)
                  => ~c[maxTokens + 1].allowed

\* C3 amended: the first N calls of a fresh key are admitted whenever they are
\* made, and the (N+1)-th call is rejected exactly when it is made less than
\* 60000 / N ms after the first call, that is before one token has refilled.
C3_BeforeFirstRefill ==
    \A key \in Keys :
        LET c == CallsOf(key)
        IN /\ \A i \in 1..Len(c) : i <= maxTokens => c[i].allowed
           /\ Len(c) > maxTokens =>
                  (~c[maxTokens + 1].allowed
                      <=> (c[maxTokens + 1].at - c[1].at) * maxTokens < MinuteMs)

\* C3 witness: with capacity at least 2, a key's (N+1)-th call came after its
\* first call, before the first refill, and was rejected.
C3_Witness ==
    \E key \in Keys :
        LET c == CallsOf(key)
        IN /\ maxTokens >= 2
           /\ Len(c) > maxTokens
           /\ c[maxTokens + 1].at > c[1].at
           /\ ~c[maxTokens + 1].allowed

\* C4: once a call for a key has been rejected, a call for that key made one
\* full minute or more after the key's previous call is admitted.
C4_AdmittedAfterFullMinute ==
    \A key \in Keys :
        LET c == CallsOf(key)
        IN \A i \in 2..Len(c) :
               ((\E j \in 1..(i - 1) : ~c[j].allowed)
                   /\ c[i].at - c[i - 1].at >= MinuteMs) => c[i].allowed

\* C4 witness: a rejected call followed, a full minute later, by the key's next call.
C4_Witness ==
    \E key \in Keys :
        LET c == CallsOf(key)
        IN \E i \in 2..Len(c) :
               /\ ~c[i - 1].allowed
               /\ c[i].at - c[i - 1].at >= MinuteMs
               /\ c[i].allowed

\* C29: for every key, after any sequence of isAllowed calls at non-decreasing
\* times and with an integer capacity of at least 1, the token count of the
\* bucket is an integer in [0, capacity].
C29_TokensWithinCapacity ==
    \A key \in DOMAIN rateLimitStore :
        /\ rateLimitStore[key].tokens \in Int
        /\ rateLimitStore[key].tokens >= 0
        /\ rateLimitStore[key].tokens <= maxTokens

\* C29 witness: with capacity at least 2, one bucket was emptied and refused a
\* call, and another was called again after more than its capacity had
\* refilled.
C29_Witness ==
    \E k1 \in Keys, k2 \in Keys :
        /\ maxTokens >= 2
        /\ k1 \in DOMAIN rateLimitStore /\ k2 \in DOMAIN rateLimitStore
        /\ rateLimitStore[k1].tokens = 0
        /\ \E i \in DOMAIN rlLog : rlLog[i].key = k1 /\ ~rlLog[i].allowed
        /\ rateLimitStore[k2].tokens = maxTokens - 1
        /\ rateLimitStore[k2].lastRefill >= MinuteMs

\* the call of this step was rejected
CallRejected ==
    /\ Len(rlLog') = Len(rlLog) + 1
    /\ ~rlLog'[Len(rlLog')].allowed

\* C30: an isAllowed call that rejects leaves the bucket of its key exactly
\* as it was before the call: neither the token count nor lastRefill changes
\* (and no other bucket changes either).
C30_RejectionLeavesBucket ==
    [][CallRejected
       => LET key == rlLog'[Len(rlLog')].key
          IN /\ key \in DOMAIN rateLimitStore
             /\ rateLimitStore'[key].tokens = rateLimitStore[key].tokens
             /\ rateLimitStore'[key].lastRefill = rateLimitStore[key].lastRefill
             /\ rateLimitStore' = rateLimitStore]_vars

\* C30 witness: a call was rejected after the last refill of its bucket, and
\* the bucket still carries the time of that refill.
C30_Witness ==
    \E i \in DOMAIN rlLog :
        /\ ~rlLog[i].allowed
        /\ rateLimitStore[rlLog[i].key].tokens = 0
        /\ rateLimitStore[rlLog[i].key].lastRefill < rlLog[i].at
        /\ rateLimitStore[rlLog[i].key].lastRefill > 0

\* the number of calls of `key` admitted at the instant t
AdmittedAt(key, t) ==
    Cardinality({i \in DOMAIN rlLog :
                    rlLog[i].key = key /\ rlLog[i].at = t /\ rlLog[i].allowed})

\* the call of this step is for a key whose previous call was made at this
\* same instant: it takes exactly one token when it is admitted, and it is
\* admitted exactly when the bucket holds a token
SpendsOneToken ==
    Len(rlLog') = Len(rlLog) + 1
    => LET e == rlLog'[Len(rlLog')]
           c == CallsOf(e.key)
       IN (c # << >> /\ c[Len(c)].at = e.at)
          => /\ e.allowed <=> rateLimitStore[e.key].tokens > 0
             /\ rateLimitStore'[e.key].tokens =
                    rateLimitStore[e.key].tokens - (IF e.allowed THEN 1 ELSE 0)

\* C32: isAllowed runs as one atomic step per request, so with any number of
\* requests sharing a key the number admitted for that key without time
\* advancing never exceeds the capacity, and no token is lost or spent twice.
C32_AtomicBucket ==
    /\ [](\A key \in Keys : \A i \in DOMAIN rlLog :
              AdmittedAt(key, rlLog[i].at) <= maxTokens)
    /\ [][SpendsOneToken]_vars

\* C32 witness: at one instant a key was called more often than its capacity
\* of at least 2; as many calls as the capacity were admitted, the others
\* rejected.
C32_Witness ==
    \E key \in Keys :
        /\ maxTokens >= 2
        /\ now = 0
        /\ Len(CallsOf(key)) >= maxTokens + 2
        /\ AdmittedAt(key, 0) = maxTokens
        /\ rateLimitStore[key].tokens = 0

\* the number of admitted calls among the first n calls of a key
AdmittedAmong(c, n) == Cardinality({i \in 1..n : c[i].allowed})

\* C33: for every key and every time T elapsed since the key was first
\* observed, the total number of requests admitted for that key is at most
\* capacity + floor(T / 60000 * refillPerMinute); the refill rate per minute
\* is the configured capacity.
C33_AdmittedBounded ==
    \A key \in Keys :
        LET c == CallsOf(key)
        IN \A n \in 1..Len(c) :
               AdmittedAmong(c, n)
                   <= maxTokens + ((c[n].at - c[1].at) * maxTokens) \div MinuteMs

\* C33 witness: some time after its first call a key has been admitted as
\* often as the bound allows, and its next call was rejected.
C33_Witness ==
    \E key \in Keys :
        LET c == CallsOf(key)
        IN \E n \in 2..Len(c) :
               /\ c[n].at > c[1].at
               /\ ~c[n].allowed
               /\ AdmittedAmong(c, n)
                      = maxTokens + ((c[n].at - c[1].at) * maxTokens) \div MinuteMs

RECURSIVE VerdictsAlone(_, _)
\* the results of the calls c when they are the only calls made, starting
\* from the store rl
VerdictsAlone(c, rl) ==
    IF c = << >> THEN << >>
    ELSE LET r == IsAllowed(rl, maxTokens, c[1].key, c[1].at)
         IN <<r.allowed>> \o VerdictsAlone(Tail(c), r.store)

\* the call of this step leaves the bucket of every other key as it was
OtherBucketsKept ==
    Len(rlLog') = Len(rlLog) + 1
    => /\ DOMAIN rateLimitStore' = DOMAIN rateLimitStore \cup {rlLog'[Len(rlLog')].key}
       /\ \A key \in DOMAIN rateLimitStore :
              key # rlLog'[Len(rlLog')].key
              => rateLimitStore'[key] = rateLimitStore[key]

\* C39: rate-limit buckets are isolated per key: an isAllowed call for one
\* key leaves the bucket of every other key unchanged, so the calls of a key
\* are admitted and rejected exactly as if no other key had been called.
C39_BucketsIsolated ==
    /\ [][OtherBucketsKept]_vars
    /\ [](\A key \in Keys :
              LET c == CallsOf(key)
              IN [i \in 1..Len(c) |-> c[i].allowed] = VerdictsAlone(c, << >>))

\* C39 witness: calls of two keys alternate at one instant; one key is
\* rejected and the other is admitted after that.
C39_Witness ==
    \E i \in DOMAIN rlLog, j \in DOMAIN rlLog :
        /\ i < j
        /\ rlLog[i].key # rlLog[j].key
        /\ rlLog[i].at = rlLog[j].at
        /\ ~rlLog[i].allowed
        /\ rlLog[j].allowed
        /\ \E h \in 1..(i - 1) : rlLog[h].key = rlLog[j].key

(***************************************************************************)
(* AnthropicProvider: convertRequest and convertResponse                   *)
(***************************************************************************)
Roles == {"system", "user", "assistant", "tool"}
Contents == {"", "A", "B"}
Messages == [role : Roles, content : Contents]

\* sequences over S of length at most n
SeqUpTo(S, n) == UNION {[1..k -> S] : k \in 0..n}

\* the optional fields of an OpenAIRequest: a field that is absent is no key
OptionalFields ==
    {f1 @@ f2 @@ f3 @@ f4 :
        f1 \in {<< >>, [max_tokens |-> 256]},
        f2 \in {<< >>, [temperature |-> 1]},
        f3 \in {<< >>, [top_p |-> 1]},
        f4 \in {<< >>, [stream |-> TRUE], [stream |-> FALSE]}}

\* every message list with the optional fields absent, and every combination of
\* optional fields and model with one message list
OpenAIRequests ==
    {[model |-> "claude-3-sonnet", messages |-> ms] :
        ms \in SeqUpTo(Messages, MaxMessages)}
    \cup
    {[model |-> m, messages |-> <<[role |-> "user", content |-> "A"]>>] @@ opt :
        m \in {"claude-3-sonnet", "my-model"}, opt \in OptionalFields}

Has(obj, field) == field \in DOMAIN obj

DefaultMaxTokens == 1024

\* mapModel: the alias table, an unknown model passed through
MapModel(openaiModel) ==
    CASE openaiModel = "claude-3-sonnet" -> "claude-3-sonnet-20240229"
      [] openaiModel = "claude-3-opus" -> "claude-3-opus-20240229"
      [] openaiModel = "claude-3-haiku" -> "claude-3-haiku-20240307"
      [] openaiModel = "claude-3-5-sonnet" -> "claude-3-5-sonnet-20241022"
      [] OTHER -> openaiModel

\* Mutant: a system message is kept in the message list as well.
PushMessageKeepSystem(acc, message) ==
    IF message.role = "system"
    THEN [acc EXCEPT !.hasSystem = TRUE, !.system = message.content,
                     !.anthropicMessages =
                         Append(@, [role |-> message.role, content |-> message.content])]
    ELSE IF message.role \in {"user", "assistant"}
    THEN [acc EXCEPT !.anthropicMessages =
              Append(@, [role |-> message.role, content |-> message.content])]
    ELSE acc

\* one turn of the loop over messages: `system` is overwritten by each system
\* message, a user or assistant message is pushed, any other role is skipped
PushMessage(acc, message) ==
    IF message.role = "system"
    THEN [acc EXCEPT !.hasSystem = TRUE, !.system = message.content]
    ELSE IF message.role \in {"user", "assistant"}
    THEN [acc EXCEPT !.anthropicMessages =
              Append(@, [role |-> message.role, content |-> message.content])]
    ELSE acc

RECURSIVE ScanMessages(_, _, _)
\* for (const message of messages) { ... } from message i on
ScanMessages(messages, i, acc) ==
    IF i > Len(messages) THEN acc
    ELSE ScanMessages(messages, i + 1, PushMessage(acc, messages[i]))

\* if (system) anthropicRequest.system = system: an empty string is falsy
SystemField(scan) ==
    IF scan.hasSystem /\ scan.system # "" THEN [system |-> scan.system] ELSE << >>

\* a field copied when it is not undefined
CopyIfPresent(req, field) ==
    IF Has(req, field) THEN [x \in {field} |-> req[field]] ELSE << >>

ConvertRequest(req) ==
    LET scan == ScanMessages(req.messages, 1,
                    [hasSystem |-> FALSE, system |-> "", anthropicMessages |-> << >>])
    IN [model |-> MapModel(req.model),
        max_tokens |-> IF Has(req, "max_tokens") THEN req.max_tokens ELSE DefaultMaxTokens,
        messages |-> scan.anthropicMessages]
       @@ SystemField(scan)
       @@ CopyIfPresent(req, "temperature")
       @@ CopyIfPresent(req, "top_p")
       @@ CopyIfPresent(req, "stream")

\* content blocks of an upstream response; "tool_use" stands for any other type
Blocks ==
    [type : {"text"}, text : {"Hello", " world", ""}]
        \cup [type : {"tool_use"}, text : {"X"}]

AnthropicResponses ==
    {[id |-> "msg_1", model |-> "claude-3-sonnet-20240229", content |-> c,
      usage |-> [input_tokens |-> i, output_tokens |-> o]] @@ sr :
        c \in SeqUpTo(Blocks, MaxBlocks),
        i \in {0, 3}, o \in {0, 5},
        sr \in {<< >>} \cup {[stop_reason |-> r] :
                   r \in {"end_turn", "max_tokens", "stop_sequence", "tool_use",
                          "constructor"}}}

\* what a property that no object literal defines evaluates to
Undefined == "undefined"

\* the value of Object.prototype.constructor, the function Object
ObjectFunction == "function Object"

\* obj[key] for a key the object literal does not define: the lookup goes on
\* in Object.prototype, which every object literal inherits from
InheritedProperty(key) ==
    IF key = "constructor" THEN ObjectFunction ELSE Undefined

\* reasonMap[key]
ReasonMap(key) ==
    CASE key = "end_turn" -> "stop"
      [] key = "max_tokens" -> "length"
      [] key = "stop_sequence" -> "stop"
      [] OTHER -> InheritedProperty(key)

\* a || b: undefined is falsy, a non-empty string and a function are truthy
OrElse(a, b) == IF a = Undefined \/ a = "" THEN b ELSE a

\* mapFinishReason: reasonMap[anthropicReason || ''] || 'stop'
MapFinishReason(resp) ==
    LET anthropicReason == IF Has(resp, "stop_reason") THEN resp.stop_reason ELSE ""
    IN OrElse(ReasonMap(OrElse(anthropicReason, "")), "stop")

RECURSIVE Join(_)
\* Array.join('')
Join(texts) == IF texts = << >> THEN "" ELSE Head(texts) \o Join(Tail(texts))

\* Mutant: the blocks are joined without the filter on their type.
TextOfAllBlocks(content) ==
    Join([i \in 1..Len(content) |-> content[i].text])

\* content.filter(item => item.type === 'text').map(item => item.text).join('')
TextOf(content) ==
    LET texts == SelectSeq(content, LAMBDA item : item.type = "text")
    IN Join([i \in 1..Len(texts) |-> texts[i].text])

ConvertResponse(resp) ==
    [id |-> "chatcmpl-" \o resp.id,
     object |-> "chat.completion",
     model |-> resp.model,
     choices |-> <<[index |-> 0,
                    message |-> [role |-> "assistant", content |-> TextOf(resp.content)],
                    finish_reason |-> MapFinishReason(resp)]>>,
     usage |-> [prompt_tokens |-> resp.usage.input_tokens,
                completion_tokens |-> resp.usage.output_tokens,
                total_tokens |-> resp.usage.input_tokens + resp.usage.output_tokens]]

InitTransform ==
    /\ now = 0
    /\ maxTokens = 1
    /\ rateLimitStore = << >>
    /\ rlLog = << >>
    /\ streamPc = "idle"
    /\ upstream = << >>
    /\ wire = << >>
    /\ frames = << >>
    /\ guardrailsConfig = [enabled |-> FALSE, mode |-> "log"]
    /\ store = << >>
    /\ requests = << >>
    /\ upstreamCalls = 0
    /\ adapterCall = << >>
    /\ anthropicRequest = << >>
    /\ openaiResponse = << >>
    /\ \/ /\ transformPc = "request"
          /\ openaiRequest \in OpenAIRequests
          /\ anthropicResponse = << >>
       \/ /\ transformPc = "response"
          /\ openaiRequest = << >>
          /\ anthropicResponse \in AnthropicResponses

\* const anthropicRequest = this.convertRequest(request)
DoConvertRequest ==
    /\ transformPc = "request"
    /\ anthropicRequest' = ConvertRequest(openaiRequest)
    /\ transformPc' = "requestDone"
    /\ UNCHANGED <<callVars, rlVars, streamVars, pipeVars>>
    /\ UNCHANGED <<openaiRequest, anthropicResponse, openaiResponse>>

\* const openaiResponse = this.convertResponse(anthropicResponse)
DoConvertResponse ==
    /\ transformPc = "response"
    /\ openaiResponse' = ConvertResponse(anthropicResponse)
    /\ transformPc' = "responseDone"
    /\ UNCHANGED <<callVars, rlVars, streamVars, pipeVars>>
    /\ UNCHANGED <<openaiRequest, anthropicRequest, anthropicResponse>>

NextTransform == DoConvertRequest \/ DoConvertResponse

SpecTransform == InitTransform /\ [][NextTransform]_vars

(***************************************************************************)
(* Claims about the transcoding of requests and responses (checked under   *)
(* SpecTransform).                                                         *)
(***************************************************************************)
\* the inbound user and assistant messages, in their order
UserAssistantMessages(messages) ==
    SelectSeq(messages, LAMBDA m : m.role \in {"user", "assistant"})

SystemIndexes(messages) == {i \in 1..Len(messages) : messages[i].role = "system"}

\* the upstream message list is the inbound user/assistant messages one for one
\* and in order, and holds no system message
MessagesCarriedOver ==
    LET inbound == UserAssistantMessages(openaiRequest.messages)
        converted == anthropicRequest.messages
    IN /\ Len(converted) = Len(inbound)
       /\ \A i \in 1..Len(converted) :
              /\ converted[i].role = inbound[i].role
              /\ converted[i].content = inbound[i].content
              /\ converted[i].role # "system"

\* C8 as stated: the upstream messages are exactly the inbound user/assistant
\* messages in order, with no system message, and the content of a single
\* system message becomes the upstream system field.
C8_SingleSystemBecomesField ==
    transformPc = "requestDone" =>
        /\ MessagesCarriedOver
        /\ \A i \in SystemIndexes(openaiRequest.messages) :
               SystemIndexes(openaiRequest.messages) = {i} =>
                   /\ Has(anthropicRequest, "system")
                   /\ anthropicRequest.system = openaiRequest.messages[i].content

\* C8 amended: as C8, but the content of a single system message becomes the
\* upstream system field only when it is not empty; an empty content leaves the
\* upstream request without a system field.
C8_NonEmptySystemBecomesField ==
    transformPc = "requestDone" =>
        /\ MessagesCarriedOver
        /\ \A i \in SystemIndexes(openaiRequest.messages) :
               SystemIndexes(openaiRequest.messages) = {i} =>
                   IF openaiRequest.messages[i].content # ""
                   THEN /\ Has(anthropicRequest, "system")
                        /\ anthropicRequest.system = openaiRequest.messages[i].content
                   ELSE ~Has(anthropicRequest, "system")

\* C8 witness: a converted request with one non-empty system message and two
\* different user/assistant messages.
C8_Witness ==
    /\ transformPc = "requestDone"
    /\ \E i \in SystemIndexes(openaiRequest.messages) :
           /\ SystemIndexes(openaiRequest.messages) = {i}
           /\ openaiRequest.messages[i].content # ""
    /\ Len(anthropicRequest.messages) = 2
    /\ anthropicRequest.messages[1] # anthropicRequest.messages[2]
    /\ Has(anthropicRequest, "system")

\* the number of system messages the list starts with
RECURSIVE LeadingSystemRun(_)
LeadingSystemRun(messages) ==
    IF messages # << >> /\ Head(messages).role = "system"
    THEN 1 + LeadingSystemRun(Tail(messages))
    ELSE 0

RECURSIVE ConcatContents(_, _)
\* the contents of the first n messages, concatenated
ConcatContents(messages, n) ==
    IF n = 0 THEN ""
    ELSE ConcatContents(messages, n - 1) \o messages[n].content

\* C9: when the inbound list starts with several system messages, the upstream
\* system field is the concatenation of their contents (an absent field read
\* as the empty text) and none of them is in the upstream message list.
C9_LeadingSystemsConcatenated ==
    (transformPc = "requestDone" /\ LeadingSystemRun(openaiRequest.messages) >= 2) =>
        /\ (IF Has(anthropicRequest, "system") THEN anthropicRequest.system ELSE "")
               = ConcatContents(openaiRequest.messages,
                                LeadingSystemRun(openaiRequest.messages))
        /\ \A i \in 1..Len(anthropicRequest.messages) :
               anthropicRequest.messages[i].role # "system"

RECURSIVE TextBlocksInOrder(_)
\* the text of the text-typed blocks, in block order
TextBlocksInOrder(content) ==
    IF content = << >> THEN ""
    ELSE (IF Head(content).type = "text" THEN Head(content).text ELSE "")
             \o TextBlocksInOrder(Tail(content))

\* C10: the exposed message content is the concatenation, in block order, of
\* the text of every text-typed content block; other blocks contribute nothing.
C10_ContentIsTextBlocks ==
    transformPc = "responseDone" =>
        openaiResponse.choices[1].message.content
            = TextBlocksInOrder(anthropicResponse.content)

\* C10 witness: a converted response with two different non-empty text blocks
\* and a block of another type.
C10_Witness ==
    /\ transformPc = "responseDone"
    /\ \E i, j, k \in 1..Len(anthropicResponse.content) :
           /\ i < j
           /\ anthropicResponse.content[i] = [type |-> "text", text |-> "Hello"]
           /\ anthropicResponse.content[j] = [type |-> "text", text |-> " world"]
           /\ anthropicResponse.content[k].type # "text"
    /\ openaiResponse.choices[1].message.content = "Hello world"

\* the finish reason the mapping table of the specification gives
FinishReasonOfTable(resp) ==
    IF Has(resp, "stop_reason") /\ resp.stop_reason = "max_tokens"
    THEN "length" ELSE "stop"

\* C11: the finish-reason mapping is total: end_turn and stop_sequence give
\* "stop", max_tokens gives "length", every other value and an absent one give
\* "stop"; the result is always "stop" or "length".
C11_FinishReasonTotal ==
    transformPc = "responseDone" =>
        /\ openaiResponse.choices[1].finish_reason = FinishReasonOfTable(anthropicResponse)
        /\ openaiResponse.choices[1].finish_reason \in {"stop", "length"}

(***************************************************************************)
(* AnthropicProvider.chatCompletions: the streaming loop                   *)
(*                                                                         *)
(* The upstream sends one `data: <payload>` line per event, each after an  *)
(* `event: <name>` line and before an empty line.  The bytes are modelled  *)
(* as fragments: a data line is two fragments (the first holds the         *)
(* `data: ` prefix and the start of the payload), so that a network chunk  *)
(* can end inside a line, before its line break or after it.               *)
(***************************************************************************)
MaxEvents == 3          \* data lines of one upstream stream

ContentDelta(text) == [valid |-> TRUE, type |-> "content_block_delta", text |-> text]
MessageStop == [valid |-> TRUE, type |-> "message_stop", text |-> ""]
Ping == [valid |-> TRUE, type |-> "ping", text |-> ""]
NotJson == [valid |-> FALSE, type |-> "", text |-> ""]

\* the payloads of the data lines an upstream may send
Payloads ==
    {ContentDelta("Hi"), ContentDelta(" there"), ContentDelta(""),
     MessageStop, Ping, NotJson}

NewLine == [kind |-> "nl", payload |-> NotJson]
EventLine == [kind |-> "event", payload |-> NotJson]
DataHead(p) == [kind |-> "dataHead", payload |-> p]
DataTail(p) == [kind |-> "dataTail", payload |-> p]

\* the bytes of one upstream event
EventBytes(p) == <<EventLine, NewLine, DataHead(p), DataTail(p), NewLine, NewLine>>

RECURSIVE StreamBytes(_)
StreamBytes(payloads) ==
    IF payloads = << >> THEN << >>
    ELSE EventBytes(Head(payloads)) \o StreamBytes(Tail(payloads))

RECURSIVE SplitLines(_, _)
\* chunk.split('\n'): the lines of a chunk, `line` being the line in progress
SplitLines(chunk, line) ==
    IF chunk = << >> THEN <<line>>
    ELSE IF Head(chunk).kind = "nl"
    THEN <<line>> \o SplitLines(Tail(chunk), << >>)
    ELSE SplitLines(Tail(chunk), Append(line, Head(chunk)))

\* line.startsWith('data: ')
StartsWithData(line) == line # << >> /\ line[1].kind = "dataHead"

\* JSON.parse(line.slice(6)) returns: the line holds one whole valid payload
JsonParses(line) ==
    /\ Len(line) = 2
    /\ line[1].kind = "dataHead" /\ line[2].kind = "dataTail"
    /\ line[1].payload = line[2].payload
    /\ line[1].payload.valid

DeltaFrame(text) ==
    [object |-> "chat.completion.chunk", model |-> "claude-3-sonnet",
     delta |-> [content |-> text], finish_reason |-> "null"]
FinishFrame ==
    [object |-> "chat.completion.chunk", model |-> "claude-3-sonnet",
     delta |-> << >>, finish_reason |-> "stop"]
DoneFrame == [object |-> "[DONE]"]

\* convertStreamChunk: the frames of one decoded upstream event
ConvertStreamChunk(chunk) ==
    IF chunk.type = "content_block_delta" /\ chunk.text # ""
    THEN <<DeltaFrame(chunk.text)>>
    ELSE IF chunk.type = "message_stop"
    THEN <<FinishFrame, DoneFrame>>
    ELSE << >>

\* the body of `for (const line of lines)`: what one line enqueues
ConvertLine(line) ==
    IF StartsWithData(line) /\ JsonParses(line)
    THEN ConvertStreamChunk(line[1].payload)
    ELSE << >>

RECURSIVE ConvertLinesAbort(_)
\* Mutant: a data line that fails to parse ends the processing of its chunk.
ConvertLinesAbort(lines) ==
    IF lines = << >> THEN << >>
    ELSE IF StartsWithData(Head(lines)) /\ ~JsonParses(Head(lines)) THEN << >>
    ELSE ConvertLine(Head(lines)) \o ConvertLinesAbort(Tail(lines))

RECURSIVE ConvertLines(_)
\* for (const line of lines) { ... }: the frames of the lines of one chunk
ConvertLines(lines) ==
    IF lines = << >> THEN << >>
    ELSE ConvertLine(Head(lines)) \o ConvertLines(Tail(lines))

InitStream ==
    /\ now = 0
    /\ maxTokens = 1
    /\ rateLimitStore = << >>
    /\ rlLog = << >>
    /\ transformPc = "idle"
    /\ openaiRequest = << >>
    /\ anthropicRequest = << >>
    /\ anthropicResponse = << >>
    /\ openaiResponse = << >>
    /\ guardrailsConfig = [enabled |-> FALSE, mode |-> "log"]
    /\ store = << >>
    /\ requests = << >>
    /\ upstreamCalls = 0
    /\ adapterCall = << >>
    /\ streamPc = "reading"
    /\ upstream \in SeqUpTo(Payloads, MaxEvents)
    /\ wire = StreamBytes(upstream)
    /\ frames = << >>

\* one turn of the loop: reader.read() returns the next n fragments as one chunk
ReadChunk(n) ==
    /\ streamPc = "reading"
    /\ n <= Len(wire)
    /\ LET chunk == SubSeq(wire, 1, n)
       IN frames' = frames \o ConvertLines(SplitLines(chunk, << >>))
    /\ wire' = SubSeq(wire, n + 1, Len(wire))
    /\ UNCHANGED <<callVars, rlVars, transformVars, pipeVars, streamPc, upstream>>

\* reader.read() returns done: the loop ends and the outbound stream is closed
ReadDone ==
    /\ streamPc = "reading"
    /\ wire = << >>
    /\ streamPc' = "closed"
    /\ UNCHANGED <<callVars, rlVars, transformVars, pipeVars, upstream, wire, frames>>

NextStream ==
    \/ \E n \in 1..(6 * MaxEvents) : ReadChunk(n)
    \/ ReadDone

SpecStream == InitStream /\ [][NextStream]_vars

(***************************************************************************)
(* Claims about the streaming transform (checked under SpecStream).        *)
(***************************************************************************)
\* the upstream is content deltas with non-empty text followed by one
\* stream-terminal event
DeltasThenStop ==
    /\ upstream # << >>
    /\ upstream[Len(upstream)] = MessageStop
    /\ \A i \in 1..(Len(upstream) - 1) :
           upstream[i].type = "content_block_delta" /\ upstream[i].text # ""

\* C6: for an upstream of content deltas followed by one stream-terminal
\* event, however its bytes are divided into chunks, the outbound frames are
\* one delta frame per upstream delta with its text and no finish reason, in
\* order, then one frame with an empty delta and finish_reason "stop", then
\* the [DONE] sentinel.
C6_FramesWhateverTheChunks ==
    (streamPc = "closed" /\ DeltasThenStop) =>
        /\ Len(frames) = Len(upstream) + 1
        /\ \A i \in 1..(Len(upstream) - 1) : frames[i] = DeltaFrame(upstream[i].text)
        /\ frames[Len(upstream)] = FinishFrame
        /\ frames[Len(upstream) + 1] = DoneFrame

\* the frames the exposed format has for one upstream event
FramesOfEvent(p) ==
    IF p.valid /\ p.type = "content_block_delta" /\ p.text # ""
    THEN <<DeltaFrame(p.text)>>
    ELSE IF p.valid /\ p.type = "message_stop"
    THEN <<FinishFrame, DoneFrame>>
    ELSE << >>

RECURSIVE WholeEventFrames(_)
\* the frames of the events whose data line lies whole in the chunk, in order
WholeEventFrames(chunk) ==
    IF Len(chunk) < 2 THEN << >>
    ELSE IF chunk[1].kind = "dataHead" /\ chunk[2].kind = "dataTail"
    THEN FramesOfEvent(chunk[1].payload)
             \o WholeEventFrames(SubSeq(chunk, 3, Len(chunk)))
    ELSE WholeEventFrames(Tail(chunk))

\* the chunk read in this step
ChunkRead == SubSeq(wire, 1, Len(wire) - Len(wire'))

RequestIds == {1, 2}

Path == "/v1/chat/completions"

CacheTtl == 60000

DefaultProvider == "openai"

\* the headers of the clients: the first draws its key from the bearer token,
\* the second from x-real-ip
ClientHeaders ==
    {[authorization |-> "Bearer k1"],
     [authorization |-> "Basic abc", x_real_ip |-> "k2"]}

\* authHeader?.startsWith("Bearer ") ? authHeader.slice(7)
\*     : x-forwarded-for || x-real-ip || "unknown"
RateLimitKey(headers) ==
    IF Has(headers, "authorization") /\ headers.authorization = "Bearer k1"
    THEN "k1"
    ELSE IF Has(headers, "x_forwarded_for") THEN headers.x_forwarded_for
    ELSE IF Has(headers, "x_real_ip") THEN headers.x_real_ip
    ELSE "unknown"

\* the request bodies clients send: `text` names the bytes, the other fields
\* are what the JSON holds
Bodies ==
    {[text |-> "gpt", json |-> TRUE, model |-> "gpt-4o-mini", messages |-> "array",
      stream |-> FALSE],
     [text |-> "gpt-stream", json |-> TRUE, model |-> "gpt-4o-mini", messages |-> "array",
      stream |-> TRUE],
     [text |-> "claude", json |-> TRUE, model |-> "claude-3-sonnet", messages |-> "array",
      stream |-> FALSE],
     [text |-> "claude-stream", json |-> TRUE, model |-> "claude-3-sonnet",
      messages |-> "array", stream |-> TRUE],
     [text |-> "no-model", json |-> TRUE, model |-> "", messages |-> "array",
      stream |-> FALSE],
     [text |-> "no-messages", json |-> TRUE, model |-> "gpt-4o-mini", messages |-> "absent",
      stream |-> FALSE]}

\* further bodies, sent by a client that is alone: messages that is an empty
\* array or a string, models outside the mapping table, and texts that are
\* not JSON
MoreBodies ==
    {[text |-> "empty-messages", json |-> TRUE, model |-> "gpt-4o-mini",
      messages |-> "empty", stream |-> FALSE],
     [text |-> "string-messages", json |-> TRUE, model |-> "gpt-4o-mini",
      messages |-> "string", stream |-> FALSE],
     [text |-> "other-model", json |-> TRUE, model |-> "mistral-7b", messages |-> "array",
      stream |-> FALSE],
     [text |-> "constructor-model", json |-> TRUE, model |-> "constructor",
      messages |-> "array", stream |-> FALSE],
     [text |-> "{bad", json |-> FALSE, model |-> "", messages |-> "absent",
      stream |-> FALSE],
     [text |-> "timeout", json |-> FALSE, model |-> "", messages |-> "absent",
      stream |-> FALSE]}

\* !request.messages || !Array.isArray(request.messages): an absent field is
\* falsy, a non-empty string is truthy and no array, an array is truthy even
\* when it is empty
MessagesRejected(messages) ==
    \/ messages = "absent"
    \/ messages \notin {"array", "empty"}

\* getProviderForModel: config.model_mappings[model] || config.default_provider
GetProviderForModel(model) ==
    LET mapped == CASE model = "gpt-4o-mini" -> "openai"
                    [] model = "claude-3-sonnet" -> "anthropic"
                    [] OTHER -> InheritedProperty(model)
    IN OrElse(mapped, DefaultProvider)

NoBody == [kind |-> "none", code |-> "", call |-> 0, format |-> ""]
\* the JSON completion the upstream produces for the call of request `call`
\* in the schema `format`
CompletionBody(call, format) ==
    [kind |-> "completion", code |-> "", call |-> call, format |-> format]
\* the event stream the upstream produces for the call of request `call`
SseBody(call, format) == [kind |-> "sse", code |-> "", call |-> call, format |-> format]
\* { error: { message, type, code } }
ErrorBody(code) == [kind |-> "error", code |-> code, call |-> 0, format |-> ""]

NoResponse == [status |-> 0, contentType |-> "", body |-> NoBody]

\* createErrorResponse / c.json({ error: ... }, status)
CreateErrorResponse(code, status) ==
    [status |-> status, contentType |-> "application/json", body |-> ErrorBody(code)]

\* Response.ok
Ok(res) == res.status >= 200 /\ res.status <= 299

\* String.prototype.includes
Includes(s, sub) ==
    \E i \in 1..(Len(s) - Len(sub) + 1) : SubSeq(s, i, i + Len(sub) - 1) = sub

\* Mutant: only the exact content type counts as an event stream.
IsEventStreamExact(res) == res.contentType = "text/event-stream"

\* contentType.includes("text/event-stream")
IsEventStream(res) == Includes(res.contentType, "text/event-stream")

\* what the upstream may answer to a call: it honours the stream flag
UpstreamOutcomes(stream) ==
    {[kind |-> "response", status |-> 200],
     [kind |-> "response", status |-> 503],
     [kind |-> "abort", status |-> 0],
     [kind |-> "networkError", status |-> 0]}

\* the Response fetch() resolves to, in the schema of the upstream
UpstreamResponse(outcome, stream, call, format) ==
    IF outcome.status = 200
    THEN IF stream
         THEN [status |-> 200, contentType |-> "text/event-stream",
               body |-> SseBody(call, format)]
         ELSE [status |-> 200, contentType |-> "application/json",
               body |-> CompletionBody(call, format)]
    ELSE [status |-> outcome.status, contentType |-> "application/json",
          body |-> ErrorBody("upstream")]

\* a thrown Error with its message
Thrown(message) == [threw |-> TRUE, message |-> message, response |-> NoResponse]
Returned(res) == [threw |-> FALSE, message |-> "", response |-> res]

\* the SyntaxError of JSON.parse (V8): the message quotes the text
JsonSyntaxError(text) ==
    Thrown("\"" \o text \o "\" is not valid JSON")

\* fetch() under the AbortController: AbortError becomes Error('Request timeout'),
\* any other rejection (TypeError: fetch failed) is thrown on
Fetch(outcome, stream, call, format) ==
    CASE outcome.kind = "abort" -> Thrown("Request timeout")
      [] outcome.kind = "networkError" -> Thrown("fetch failed")
      [] OTHER -> Returned(UpstreamResponse(outcome, stream, call, format))

\* OpenAIProvider.chatCompletions: the upstream response as it is
OpenAIChatCompletions(outcome, stream, call) == Fetch(outcome, stream, call, "openai")

\* AnthropicProvider.chatCompletions
AnthropicChatCompletions(outcome, stream, call) ==
    LET fetched == Fetch(outcome, stream, call, "anthropic")
    IN IF fetched.threw THEN fetched
       ELSE IF stream
       THEN \* new Response(readableStream, { headers: text/event-stream }): status
            \* 200, the chunks converted by convertStreamChunk
            Returned([status |-> 200, contentType |-> "text/event-stream",
                      body |-> SseBody(call, "openai")])
       ELSE IF ~Ok(fetched.response) THEN fetched
       ELSE IF fetched.response.body.kind # "completion"
       THEN JsonSyntaxError("data: ")      \* response.json() throws
       ELSE \* convertResponse
            Returned([status |-> 200, contentType |-> "application/json",
                      body |-> CompletionBody(call, "openai")])

\* Mutant: what is thrown is taken not to be an instance of Error.
CaughtUnknown(message) == CreateErrorResponse("UNKNOWN_ERROR", 500)

\* the catch block of the POST handler (lines 163-193); what is thrown (a
\* SyntaxError, a TypeError of fetch, the Error of the adapters) is an
\* instance of Error
Caught(message) ==
    IF Includes(message, "timeout")
    THEN CreateErrorResponse("TIMEOUT", 504)
    ELSE CreateErrorResponse("INTERNAL_ERROR", 500)

\* the POST handler after the provider call (lines 148-193)
HandlerResponse(result) ==
    IF result.threw
    THEN Caught(result.message)
    ELSE IF ~Ok(result.response)
    THEN CreateErrorResponse("PROVIDER_ERROR", result.response.status)
    ELSE IF result.response.body.kind # "completion"
    THEN \* await response.json() throws a SyntaxError, caught below
         Caught(JsonSyntaxError("data: ").message)
    ELSE [status |-> result.response.status, contentType |-> "application/json",
          body |-> result.response.body]

\* const key = `${c.req.path}:${bodyText}`
CacheKey(path, bodyText) == <<path, bodyText>>

\* Mutant: an entry is served up to and including its expiry time.
CacheFreshInclusive(entry, t) == entry.expires >= t

\* cached.expires > Date.now()
CacheFresh(entry, t) == entry.expires > t

\* Mutant: every response is eligible for storage.
CacheableAlways(res) == TRUE

\* Mutant: no response is eligible for storage.
CacheableNever(res) == FALSE

\* c.res.ok && !contentType.includes("text/event-stream")
Cacheable(res) == Ok(res) /\ ~IsEventStream(res)

NoEntry ==
    [expires |-> 0, body |-> NoBody, status |-> 0, contentType |-> "",
     model |-> "", provider |-> "", storedAt |-> 0, writer |-> 0]

\* what the detector capability answers: no entity, an entity, or a failure
DetectorOutcomes == {"none", "pii", "error"}

\* the outcomes in which client.send() resolves.  The pipeline of two clients
\* is followed under these: a failure leaves the same labels as "none", and
\* the record of failures is kept where the middlewares are followed on their
\* own (SpecMiddleware).
DetectorAnswers == DetectorOutcomes \ {"error"}

\* Mutant: a failure of the detector counts as a detection.
DetectPiiFailClosed(outcome) == IF outcome = "none" THEN << >> ELSE <<"EMAIL">>

\* detectPii: the labels found; a failure is caught and gives no label
DetectPii(outcome) == IF outcome = "pii" THEN <<"EMAIL">> ELSE << >>

\* the stages at which client.send() rejected (console.error in the catch)
Failures(failures, stage, outcome) ==
    IF outcome = "error" THEN Append(failures, stage) ELSE failures

\* Mutant: only the first detection of a request is kept.
PushDetectionOnce(detections, stage, labels) ==
    IF labels # << >> /\ detections = << >>
    THEN Append(detections, [stage |-> stage, labels |-> labels])
    ELSE detections

\* if (detection.entities.length) detections.push({ type, stage, labels })
PushDetection(detections, stage, labels) ==
    IF labels # << >>
    THEN Append(detections, [stage |-> stage, labels |-> labels])
    ELSE detections

\* gatewayLogger: entry.guardrails is set when the list is not empty
EntryGuardrails(detections) ==
    [present |-> Len(detections) > 0, list |-> detections]

\* Mutant: the request stage only logs, whatever the mode.
RequestStageLogsOnly(mode, labels) == FALSE

\* request stage: reqDetection.entities.length && mode === "block"
RequestStageBlocks(mode, labels) == labels # << >> /\ mode = "block"

\* Mutant: the response stage replaces the response in log mode too.
ResponseStageBlocksAnyMode(mode, labels) == labels # << >>

\* Mutant: the response stage only logs, whatever the mode.
ResponseStageLogsOnly(mode, labels) == FALSE

\* response stage: resDetection.entities.length && mode === "block"
ResponseStageBlocks(mode, labels) == labels # << >> /\ mode = "block"

NewRequest ==
    [pc |-> "new", key |-> "", body |-> CHOOSE b \in Bodies : TRUE,
     admitted |-> FALSE,
     cacheStatus |-> "none", found |-> FALSE, cached |-> NoEntry, lookupAt |-> 0,
     detectorCalls |-> << >>, detectorFailures |-> << >>,
     reqLabels |-> << >>, resLabels |-> << >>,
     detections |-> << >>,
     provider |-> "", upstreamCalled |-> 0, upstreamStatus |-> 0, timedOut |-> FALSE,
     res |-> NoResponse]

Init ==
    /\ now = 0
    /\ maxTokens = 1      \* the limit under which a second request of a key is refused
    /\ rateLimitStore = << >>
    /\ rlLog = << >>
    /\ transformPc = "idle"
    /\ openaiRequest = << >>
    /\ anthropicRequest = << >>
    /\ anthropicResponse = << >>
    /\ openaiResponse = << >>
    /\ streamPc = "idle"
    /\ upstream = << >>
    /\ wire = << >>
    /\ frames = << >>
    /\ guardrailsConfig \in
           {[enabled |-> FALSE, mode |-> "log"],
            [enabled |-> TRUE, mode |-> "log"],
            [enabled |-> TRUE, mode |-> "block"]}
    /\ store = << >>
    /\ requests = [r \in RequestIds |-> NewRequest]
    /\ upstreamCalls = 0
    /\ adapterCall = << >>

\* Mutant: a failed response sends the request back to the handler.
AfterHandlerRetry(res) == IF ~Ok(res) THEN "handler" ELSE "done"

\* the stage a response produced by the handler goes through next: the
\* guardrail response stage scans it unless it is an event stream, then the
\* cache stores it if it is cacheable
AfterHandler(res) ==
    IF guardrailsConfig.enabled /\ ~IsEventStream(res) THEN "guardRes"
    ELSE IF Cacheable(res) THEN "cacheStore"
    ELSE "done"

\* the bodies a client may send: two clients draw theirs from Bodies, a client
\* that is alone from the further ones too
RequestBodies ==
    IF \E r \in RequestIds : requests[r].pc = "absent"
    THEN Bodies \cup MoreBodies ELSE Bodies

\* Time passes, half a TTL at a time.  The reading of a body and a detector
\* call are taken to last less than such a step: the clock moves while
\* requests wait for the upstream or while none is being processed.  (No code
\* between the lookup and the store reads the clock, so a step of time during
\* a detector call gives the same stores and responses as that step taken
\* during the wait for the upstream.)
PipelineTick ==
    /\ now + CacheTtl \div 2 <= MaxTicks * TickMs
    /\ \A r \in RequestIds : requests[r].pc \in {"new", "upstream", "done", "absent"}
    /\ now' = now + CacheTtl \div 2
    /\ UNCHANGED <<callVars, maxTokens, rateLimitStore, rlLog, transformVars, streamVars, pipeVars>>

\* Mutant: the rate limiting middleware calls next() whatever isAllowed says.
AfterRateLimitNext(allowed) == "cache"

\* if (!rateLimiter.isAllowed(key)) return createErrorResponse(...); await next()
AfterRateLimit(allowed) == IF allowed THEN "cache" ELSE "done"

\* Mutant: the cache is consulted before the rate limiter; a fresh entry is
\* replayed without a call of isAllowed.
ArriveCacheFirst(r, headers, body) ==
    /\ requests[r].pc = "new"
    /\ \A q \in RequestIds : q < r => requests[q].pc # "new"
    /\ (\A q \in RequestIds : requests[q].pc = "new") => RateLimitKey(headers) = "k1"
    /\ LET key == RateLimitKey(headers)
           rl == IsAllowed(rateLimitStore, maxTokens, key, now)
           ck == CacheKey(Path, body.text)
           fresh == ck \in DOMAIN store /\ store[ck].expires > now
       IN IF fresh
          THEN /\ rateLimitStore' = rateLimitStore
               /\ requests' = [requests EXCEPT ![r] =
                      [@ EXCEPT !.pc = "done", !.key = key, !.body = body,
                                !.admitted = TRUE, !.cacheStatus = "hit",
                                !.found = TRUE, !.cached = store[ck],
                                !.lookupAt = now,
                                !.res = [status |-> store[ck].status,
                                         contentType |-> store[ck].contentType,
                                         body |-> store[ck].body]]]
          ELSE /\ rateLimitStore' = rl.store
               /\ requests' = [requests EXCEPT ![r] =
                      IF rl.allowed
                      THEN [@ EXCEPT !.pc = "cache", !.key = key,
                                     !.body = body, !.admitted = TRUE]
                      ELSE [@ EXCEPT !.pc = "done", !.key = key, !.body = body,
                                     !.res = CreateErrorResponse("RATE_LIMIT_EXCEEDED", 429)]]
    /\ UNCHANGED <<callVars, now, maxTokens, rlLog, transformVars, streamVars>>
    /\ UNCHANGED <<guardrailsConfig, store, upstreamCalls>>

\* a request arrives: the rate limiting middleware (lines 84-103)
Arrive(r, headers, body) ==
    /\ requests[r].pc = "new"
    /\ \A q \in RequestIds : q < r => requests[q].pc # "new"
    \* the two clients differ in nothing but their key: the first to arrive
    \* is the one with the bearer token
    /\ (\A q \in RequestIds : requests[q].pc = "new") => RateLimitKey(headers) = "k1"
    /\ LET key == RateLimitKey(headers)
           rl == IsAllowed(rateLimitStore, maxTokens, key, now)
       IN /\ rateLimitStore' = rl.store
          /\ requests' = [requests EXCEPT ![r] =
                 IF rl.allowed
                 THEN [@ EXCEPT !.pc = AfterRateLimit(TRUE), !.key = key,
                                !.body = body, !.admitted = TRUE]
                 ELSE [@ EXCEPT !.pc = AfterRateLimit(FALSE), !.key = key,
                                !.body = body,
                                !.res = CreateErrorResponse("RATE_LIMIT_EXCEEDED", 429)]]
    /\ UNCHANGED <<callVars, now, maxTokens, rlLog, transformVars, streamVars>>
    /\ UNCHANGED <<guardrailsConfig, store, upstreamCalls>>

\* Mutant: a hit renews the expiry of the entry it replays.
CacheLookupSliding(r) ==
    /\ requests[r].pc = "cache"
    /\ LET key == CacheKey(Path, requests[r].body.text)
           found == key \in DOMAIN store
           cached == IF found THEN store[key] ELSE NoEntry
       IN IF found /\ CacheFresh(cached, now)
          THEN /\ requests' = [requests EXCEPT ![r] =
                      [@ EXCEPT !.pc = "done", !.cacheStatus = "hit",
                                !.found = found, !.cached = cached, !.lookupAt = now,
                                !.res = [status |-> cached.status,
                                         contentType |-> cached.contentType,
                                         body |-> cached.body]]]
               /\ store' = MapSet(store, key, [cached EXCEPT !.expires = now + CacheTtl])
          ELSE /\ requests' = [requests EXCEPT ![r] =
                      [@ EXCEPT !.pc = IF guardrailsConfig.enabled
                                       THEN "guardReq" ELSE "handler",
                                !.cacheStatus = "miss",
                                !.found = found, !.cached = cached, !.lookupAt = now]]
               /\ store' = store
    /\ UNCHANGED <<callVars, rlVars, transformVars, streamVars>>
    /\ UNCHANGED <<guardrailsConfig, upstreamCalls>>

\* Mutant: a replayed response goes through the guardrail response stage.
CacheLookupScansReplay(r) ==
    /\ requests[r].pc = "cache"
    /\ LET key == CacheKey(Path, requests[r].body.text)
           found == key \in DOMAIN store
           cached == IF found THEN store[key] ELSE NoEntry
       IN requests' = [requests EXCEPT ![r] =
              IF found /\ CacheFresh(cached, now)
              THEN [@ EXCEPT !.pc = IF guardrailsConfig.enabled
                                    THEN "guardRes" ELSE "done",
                             !.cacheStatus = "hit",
                             !.found = found, !.cached = cached, !.lookupAt = now,
                             !.res = [status |-> cached.status,
                                      contentType |-> cached.contentType,
                                      body |-> cached.body]]
              ELSE [@ EXCEPT !.pc = IF guardrailsConfig.enabled
                                    THEN "guardReq" ELSE "handler",
                             !.cacheStatus = "miss",
                             !.found = found, !.cached = cached, !.lookupAt = now]]
    /\ UNCHANGED <<callVars, rlVars, transformVars, streamVars>>
    /\ UNCHANGED <<guardrailsConfig, store, upstreamCalls>>

\* memoryCache after `await clone.text()`: the lookup (lines 42-58)
CacheLookup(r) ==
    /\ requests[r].pc = "cache"
    /\ LET key == CacheKey(Path, requests[r].body.text)
           found == key \in DOMAIN store
           cached == IF found THEN store[key] ELSE NoEntry
       IN requests' = [requests EXCEPT ![r] =
              IF found /\ CacheFresh(cached, now)
              THEN [@ EXCEPT !.pc = "done", !.cacheStatus = "hit",
                             !.found = found, !.cached = cached, !.lookupAt = now,
                             !.res = [status |-> cached.status,
                                      contentType |-> cached.contentType,
                                      body |-> cached.body]]
              ELSE [@ EXCEPT !.pc = IF guardrailsConfig.enabled
                                    THEN "guardReq" ELSE "handler",
                             !.cacheStatus = "miss",
                             !.found = found, !.cached = cached, !.lookupAt = now]]
    /\ UNCHANGED <<callVars, rlVars, transformVars, streamVars>>
    /\ UNCHANGED <<guardrailsConfig, store, upstreamCalls>>

\* Mutant: a body without a model or without an array of messages is handed
\* to the handler unscanned.
GuardRequestValidatesFirst(r, outcome) ==
    /\ requests[r].pc = "guardReq"
    /\ LET body == requests[r].body
           invalid == body.model = "" \/ MessagesRejected(body.messages)
           labels == DetectPii(outcome)
           logged == PushDetection(requests[r].detections, "request", labels)
       IN requests' = [requests EXCEPT ![r] =
              IF invalid
              THEN [@ EXCEPT !.pc = "handler"]
              ELSE IF labels # << >> /\ guardrailsConfig.mode = "block"
              THEN [@ EXCEPT !.pc = "done",
                             !.detectorCalls = Append(@, "request"),
                             !.detectorFailures = Failures(@, "request", outcome),
                             !.reqLabels = labels, !.detections = logged,
                             !.res = CreateErrorResponse("PII_DETECTED", 400)]
              ELSE [@ EXCEPT !.pc = "handler",
                             !.detectorCalls = Append(@, "request"),
                             !.detectorFailures = Failures(@, "request", outcome),
                             !.reqLabels = labels, !.detections = logged]]
    /\ UNCHANGED <<callVars, rlVars, transformVars, streamVars>>
    /\ UNCHANGED <<guardrailsConfig, store, upstreamCalls>>

\* guardrails, request stage, after `await detectPii(client, reqText)` (lines 55-88)
GuardRequest(r, outcome) ==
    /\ requests[r].pc = "guardReq"
    /\ LET labels == DetectPii(outcome)
           logged == PushDetection(requests[r].detections, "request", labels)
       IN requests' = [requests EXCEPT ![r] =
              IF RequestStageBlocks(guardrailsConfig.mode, labels)
              THEN [@ EXCEPT !.pc = "done",
                             !.detectorCalls = Append(@, "request"),
                             !.detectorFailures = Failures(@, "request", outcome),
                             !.reqLabels = labels, !.detections = logged,
                             !.res = CreateErrorResponse("PII_DETECTED", 400)]
              ELSE [@ EXCEPT !.pc = "handler",
                             !.detectorCalls = Append(@, "request"),
                             !.detectorFailures = Failures(@, "request", outcome),
                             !.reqLabels = labels, !.detections = logged]]
    /\ UNCHANGED <<callVars, rlVars, transformVars, streamVars>>
    /\ UNCHANGED <<guardrailsConfig, store, upstreamCalls>>

\* Mutant: a request joins the upstream call in flight for its key instead of
\* dispatching its own.
HandleSingleFlight(r) ==
    /\ requests[r].pc = "handler"
    /\ LET joins == \E q \in RequestIds :
                        /\ q # r
                        /\ requests[q].pc = "upstream"
                        /\ requests[q].body.text = requests[r].body.text
       IN /\ requests' = [requests EXCEPT ![r] =
                 [@ EXCEPT !.pc = "upstream",
                           !.provider = GetProviderForModel(requests[r].body.model),
                           !.upstreamCalled = IF joins THEN @ ELSE @ + 1]]
          /\ upstreamCalls' = IF joins THEN upstreamCalls ELSE upstreamCalls + 1
    /\ UNCHANGED <<callVars, rlVars, transformVars, streamVars>>
    /\ UNCHANGED <<guardrailsConfig, store>>

\* the POST handler after `await c.req.json()`: validation, routing and the
\* dispatch to the provider (lines 110-146)
Handle(r) ==
    /\ requests[r].pc = "handler"
    /\ LET body == requests[r].body
       IN IF ~body.json
          THEN \* await c.req.json() throws a SyntaxError
               /\ requests' = [requests EXCEPT ![r] =
                      [@ EXCEPT !.res = Caught(JsonSyntaxError(body.text).message),
                                !.pc = AfterHandler(Caught(JsonSyntaxError(body.text).message))]]
               /\ UNCHANGED upstreamCalls
          ELSE IF body.model = ""
          THEN /\ requests' = [requests EXCEPT ![r] =
                      [@ EXCEPT !.res = CreateErrorResponse("MISSING_MODEL", 400),
                                !.pc = AfterHandler(CreateErrorResponse("MISSING_MODEL", 400))]]
               /\ UNCHANGED upstreamCalls
          ELSE IF MessagesRejected(body.messages)
          THEN /\ requests' = [requests EXCEPT ![r] =
                      [@ EXCEPT !.res = CreateErrorResponse("MISSING_MESSAGES", 400),
                                !.pc = AfterHandler(CreateErrorResponse("MISSING_MESSAGES", 400))]]
               /\ UNCHANGED upstreamCalls
          ELSE /\ requests' = [requests EXCEPT ![r] =
                      [@ EXCEPT !.pc = "upstream",
                                !.provider = GetProviderForModel(body.model),
                                !.upstreamCalled = @ + 1]]
               /\ upstreamCalls' = upstreamCalls + 1
    /\ UNCHANGED <<callVars, rlVars, transformVars, streamVars>>
    /\ UNCHANGED <<guardrailsConfig, store>>

\* the provider call settles and the handler builds its response (lines 140-193)
UpstreamSettles(r, outcome) ==
    /\ requests[r].pc = "upstream"
    /\ LET stream == requests[r].body.stream
           result == IF requests[r].provider = "openai"
                     THEN OpenAIChatCompletions(outcome, stream, r)
                     ELSE AnthropicChatCompletions(outcome, stream, r)
           res == HandlerResponse(result)
       IN requests' = [requests EXCEPT ![r] =
              [@ EXCEPT !.pc = AfterHandler(res), !.res = res,
                        !.upstreamStatus = outcome.status,
                        !.timedOut = (outcome.kind = "abort")]]
    /\ UNCHANGED <<callVars, rlVars, transformVars, streamVars>>
    /\ UNCHANGED <<guardrailsConfig, store, upstreamCalls>>

\* guardrails, response stage, after `await detectPii(client, resText)` (lines 90-118)
GuardResponse(r, outcome) ==
    /\ requests[r].pc = "guardRes"
    /\ LET labels == DetectPii(outcome)
           logged == PushDetection(requests[r].detections, "response", labels)
           res == IF ResponseStageBlocks(guardrailsConfig.mode, labels)
                  THEN CreateErrorResponse("PII_DETECTED", 502)
                  ELSE requests[r].res
       IN requests' = [requests EXCEPT ![r] =
              [@ EXCEPT !.pc = IF Cacheable(res) THEN "cacheStore" ELSE "done",
                        !.detectorCalls = Append(@, "response"),
                        !.detectorFailures = Failures(@, "response", outcome),
                        !.resLabels = labels, !.detections = logged,
                        !.res = res]]
    /\ UNCHANGED <<callVars, rlVars, transformVars, streamVars>>
    /\ UNCHANGED <<guardrailsConfig, store, upstreamCalls>>

\* memoryCache after `await resClone.text()`: the store (lines 63-77)
CacheStore(r) ==
    /\ requests[r].pc = "cacheStore"
    /\ store' = MapSet(store, CacheKey(Path, requests[r].body.text),
                       [expires |-> now + CacheTtl,
                        body |-> requests[r].res.body,
                        status |-> requests[r].res.status,
                        contentType |-> requests[r].res.contentType,
                        model |-> requests[r].body.model,
                        provider |-> requests[r].provider,
                        storedAt |-> now, writer |-> r])
    /\ requests' = [requests EXCEPT ![r].pc = "done"]
    /\ UNCHANGED <<callVars, rlVars, transformVars, streamVars>>
    /\ UNCHANGED <<guardrailsConfig, upstreamCalls>>

Next ==
    \/ PipelineTick
    \/ \E r \in RequestIds, headers \in ClientHeaders, body \in RequestBodies :
           Arrive(r, headers, body)
    \/ \E r \in RequestIds : CacheLookup(r)
    \/ \E r \in RequestIds, outcome \in DetectorAnswers : GuardRequest(r, outcome)
    \/ \E r \in RequestIds : Handle(r)
    \/ \E r \in RequestIds :
           \E outcome \in UpstreamOutcomes(requests[r].body.stream) :
               UpstreamSettles(r, outcome)
    \/ \E r \in RequestIds, outcome \in DetectorAnswers : GuardResponse(r, outcome)
    \/ \E r \in RequestIds : CacheStore(r)

Spec == Init /\ [][Next]_vars

\* one client alone (the second one is absent: it never sends), from the whole
\* range of bodies
InitOneRequest ==
    /\ now = 0
    /\ maxTokens = 1
    /\ rateLimitStore = << >>
    /\ rlLog = << >>
    /\ transformPc = "idle"
    /\ openaiRequest = << >>
    /\ anthropicRequest = << >>
    /\ anthropicResponse = << >>
    /\ openaiResponse = << >>
    /\ streamPc = "idle"
    /\ upstream = << >>
    /\ wire = << >>
    /\ frames = << >>
    /\ guardrailsConfig \in
           {[enabled |-> FALSE, mode |-> "log"],
            [enabled |-> TRUE, mode |-> "log"],
            [enabled |-> TRUE, mode |-> "block"]}
    /\ store = << >>
    /\ requests = [r \in RequestIds |->
                       IF r = 1 THEN NewRequest ELSE [NewRequest EXCEPT !.pc = "absent"]]
    /\ upstreamCalls = 0
    /\ adapterCall = << >>

SpecOneRequest == InitOneRequest /\ [][Next]_vars

\* ---- the two middlewares around any downstream handler ----

\* memoryCache and guardrails are middlewares: what `await next()` leaves in
\* c.res is whatever runs below them.  Here it is any of these responses.
DownstreamResponses(r) ==
    {[status |-> 200, contentType |-> "application/json",
      body |-> CompletionBody(r, "openai")],
     [status |-> 200, contentType |-> "text/event-stream",
      body |-> SseBody(r, "openai")],
     [status |-> 200, contentType |-> "text/event-stream; charset=utf-8",
      body |-> SseBody(r, "openai")],
     [status |-> 500, contentType |-> "text/event-stream",
      body |-> SseBody(r, "openai")],
     CreateErrorResponse("MISSING_MODEL", 400),
     CreateErrorResponse("PROVIDER_ERROR", 503),
     CreateErrorResponse("TIMEOUT", 504),
     CreateErrorResponse("INTERNAL_ERROR", 500)}

\* the bodies sent in this setting: only the bytes matter to the middlewares
MiddlewareBodies == {b \in Bodies : b.text \in {"gpt", "claude"}}

InitMiddleware ==
    /\ now = 0
    /\ maxTokens = 1
    /\ rateLimitStore = << >>
    /\ rlLog = << >>
    /\ transformPc = "idle"
    /\ openaiRequest = << >>
    /\ anthropicRequest = << >>
    /\ anthropicResponse = << >>
    /\ openaiResponse = << >>
    /\ streamPc = "idle"
    /\ upstream = << >>
    /\ wire = << >>
    /\ frames = << >>
    /\ guardrailsConfig \in
           {[enabled |-> FALSE, mode |-> "log"],
            [enabled |-> TRUE, mode |-> "log"],
            [enabled |-> TRUE, mode |-> "block"]}
    /\ store = << >>
    /\ requests = [r \in RequestIds |-> NewRequest]
    /\ upstreamCalls = 0
    /\ adapterCall = << >>

\* a request reaches memoryCache (router.use(memoryCache()))
Enters(r, body) ==
    /\ requests[r].pc = "new"
    /\ \A q \in RequestIds : q < r => requests[q].pc # "new"
    /\ requests' = [requests EXCEPT ![r] =
           [@ EXCEPT !.pc = "cache", !.body = body, !.admitted = TRUE]]
    /\ UNCHANGED <<callVars, rlVars, transformVars, streamVars>>
    /\ UNCHANGED <<guardrailsConfig, store, upstreamCalls>>

\* `await next()` of the innermost middleware returns: c.res is the response
\* of the downstream handler
NextReturns(r, res) ==
    /\ requests[r].pc = "handler"
    /\ requests' = [requests EXCEPT ![r] =
           [@ EXCEPT !.pc = AfterHandler(res), !.res = res]]
    /\ UNCHANGED <<callVars, rlVars, transformVars, streamVars>>
    /\ UNCHANGED <<guardrailsConfig, store, upstreamCalls>>

NextMiddleware ==
    \/ PipelineTick
    \/ \E r \in RequestIds, body \in MiddlewareBodies : Enters(r, body)
    \/ \E r \in RequestIds : CacheLookup(r)
    \/ \E r \in RequestIds, outcome \in DetectorOutcomes : GuardRequest(r, outcome)
    \/ \E r \in RequestIds : \E res \in DownstreamResponses(r) : NextReturns(r, res)
    \/ \E r \in RequestIds, outcome \in DetectorOutcomes : GuardResponse(r, outcome)
    \/ \E r \in RequestIds : CacheStore(r)

SpecMiddleware == InitMiddleware /\ [][NextMiddleware]_vars

\* ---- the cache (C1, C2) ----

\* request r2 makes its cache lookup in this step, after request r1, admitted
\* with the same path and the same bytes, was answered with a cacheable
\* (2xx, non-streaming) response
LooksUpAfter(r1, r2) ==
    /\ r1 # r2
    /\ requests[r2].pc = "cache"
    /\ requests'[r2].pc # "cache"
    /\ requests[r1].pc = "done"
    /\ requests[r1].admitted
    /\ requests[r1].body.text = requests[r2].body.text
    /\ requests[r1].res.status \in 200..299
    /\ requests[r1].res.contentType # "text/event-stream"

\* the lookup of the second request finds an entry with the status and body
\* the first one got; before the entry expires the second request is answered
\* at once with that status and body
SecondLooksUp ==
    \A r1 \in RequestIds, r2 \in RequestIds :
        LooksUpAfter(r1, r2) =>
            LET key == CacheKey(Path, requests[r2].body.text)
            IN /\ key \in DOMAIN store
               /\ store[key].status = requests[r1].res.status
               /\ store[key].body = requests[r1].res.body
               /\ now < store[key].expires =>
                      /\ requests'[r2].pc = "done"
                      /\ requests'[r2].cacheStatus = "hit"
                      /\ requests'[r2].res.status = requests[r1].res.status
                      /\ requests'[r2].res.body = requests[r1].res.body

\* C1: of two requests one after the other with identical path and bytes, both
\* admitted, the first answered with a cacheable response and the second
\* looking the entry up before it expires, the second returns the first one's
\* stored status and body, and the upstream adapter is not invoked for it.
C1_SecondServedFromCache ==
    /\ [][SecondLooksUp]_vars
    /\ [](\A r \in RequestIds :
              requests[r].cacheStatus = "hit" =>
                  /\ requests[r].pc = "done"
                  /\ requests[r].upstreamCalled = 0
                  /\ requests[r].provider = "")

\* C1 witness: a request answered from the entry of an earlier request with
\* the same bytes, with the completion the upstream produced for that one.
C1_Witness ==
    \E r1 \in RequestIds, r2 \in RequestIds :
        /\ r1 # r2
        /\ requests[r1].pc = "done" /\ requests[r2].pc = "done"
        /\ requests[r1].body.text = requests[r2].body.text
        /\ requests[r1].upstreamCalled = 1
        /\ requests[r2].cacheStatus = "hit"
        /\ requests[r2].lookupAt < requests[r2].cached.expires
        /\ requests[r2].upstreamCalled = 0
        /\ requests[r2].res.status = 200
        /\ requests[r2].res.body = CompletionBody(r1, "openai")

\* the lookup of request r found an entry whose TTL had elapsed
FoundExpired(r) ==
    /\ requests[r].admitted
    /\ requests[r].cacheStatus # "none"
    /\ requests[r].found
    /\ requests[r].lookupAt >= requests[r].cached.expires

\* the guardrail request stage answered request r itself
BlockedAtRequestStage(r) ==
    /\ guardrailsConfig.enabled
    /\ guardrailsConfig.mode = "block"
    /\ requests[r].reqLabels # << >>

\* C2 as stated: an admitted request that finds an entry whose TTL has elapsed
\* is a miss and, once answered, has invoked the upstream adapter.
C2_ExpiredMissCallsUpstream ==
    \A r \in RequestIds :
        FoundExpired(r) =>
            /\ requests[r].cacheStatus = "miss"
            /\ requests[r].pc = "done" => requests[r].upstreamCalled = 1

\* a store leaves an entry alone or writes it anew at the current time
EntriesNotExtended ==
    \A k \in DOMAIN store :
        /\ k \in DOMAIN store'
        /\ \/ store'[k] = store[k]
           \/ store'[k].storedAt = now /\ store'[k].expires = now + CacheTtl

\* C2 amended: every entry expires one TTL after it was stored and no step
\* extends it; an admitted request that finds an entry whose TTL has elapsed
\* is a miss, and once answered it has invoked the upstream adapter exactly
\* when the guardrail request stage has not blocked it, in which case it got
\* 400 PII_DETECTED.
C2_ExpiredMissUnlessBlocked ==
    /\ [](\A k \in DOMAIN store : store[k].expires = store[k].storedAt + CacheTtl)
    /\ [][EntriesNotExtended]_vars
    /\ [](\A r \in RequestIds :
            FoundExpired(r) =>
                /\ requests[r].cacheStatus = "miss"
                /\ requests[r].pc = "done" =>
                       IF BlockedAtRequestStage(r)
                       THEN /\ requests[r].upstreamCalled = 0
                            /\ requests[r].res = CreateErrorResponse("PII_DETECTED", 400)
                       ELSE requests[r].upstreamCalled = 1)

\* C2 witness: a request answered by the upstream after it found, at the very
\* time of its expiry, the entry an earlier request had stored.
C2_Witness ==
    \E r \in RequestIds :
        /\ FoundExpired(r)
        /\ requests[r].lookupAt = requests[r].cached.expires
        /\ requests[r].cached.writer # r
        /\ requests[r].pc = "done"
        /\ requests[r].upstreamCalled = 1
        /\ requests[r].res.body = CompletionBody(r, "openai")

\* ---- the guardrails (C5) ----

\* C5: with guardrails enabled in block mode, a request for which the
\* request-stage detector returned labels is answered 400 PII_DETECTED and the
\* provider adapter is never invoked for it.
C5_BlockedBeforeProvider ==
    \A r \in RequestIds :
        (/\ guardrailsConfig.enabled
         /\ guardrailsConfig.mode = "block"
         /\ "request" \in {requests[r].detectorCalls[i] :
                               i \in DOMAIN requests[r].detectorCalls}
         /\ requests[r].reqLabels # << >>)
        => /\ requests[r].pc = "done"
           /\ requests[r].res.status = 400
           /\ requests[r].res.body = ErrorBody("PII_DETECTED")
           /\ requests[r].upstreamCalled = 0
           /\ requests[r].provider = ""

\* C5 witness: a well-formed request answered by the request stage in block mode.
C5_Witness ==
    \E r \in RequestIds :
        /\ guardrailsConfig.mode = "block"
        /\ requests[r].reqLabels = <<"EMAIL">>
        /\ requests[r].body.text = "gpt"
        /\ requests[r].res = CreateErrorResponse("PII_DETECTED", 400)

\* ---- streaming through the handler (C7) ----

\* C7: a request with stream = true whose upstream call returned 2xx is
\* answered with Content-Type text/event-stream and an event stream as body,
\* for both providers.
C7_StreamAnsweredAsEventStream ==
    \A r \in RequestIds :
        (/\ requests[r].pc = "done"
         /\ requests[r].body.stream
         /\ requests[r].upstreamCalled = 1
         /\ requests[r].upstreamStatus \in 200..299)
        => /\ requests[r].res.contentType = "text/event-stream"
           /\ requests[r].res.body = SseBody(r, "openai")

\* ---- routing (C12) ----

\* the provider the mapping table of the configuration gives, or the default
ProviderOfTable(model) ==
    CASE model = "gpt-4o-mini" -> "openai"
      [] model = "claude-3-sonnet" -> "anthropic"
      [] OTHER -> DefaultProvider

\* C12: a routed request gets the provider its model is mapped to, and the
\* configured default provider for every other model string, so the result is
\* always one of the two provider names.
C12_MappedOrDefaultProvider ==
    \A r \in RequestIds :
        requests[r].upstreamCalled = 1 =>
            /\ requests[r].provider = ProviderOfTable(requests[r].body.model)
            /\ requests[r].provider \in {"openai", "anthropic"}

\* ---- validation (C13, C14) ----

\* the body is JSON and lacks a model, or its messages are absent or no array
FailsValidation(body) ==
    /\ body.json
    /\ body.model = "" \/ body.messages \in {"absent", "string"}

\* C13: no step of an admitted request that fails validation dispatches to the
\* upstream or changes shared state: the rate-limit buckets and the cache
\* store are after the step what they were before it.
C13_InvalidRequestMutatesNothing ==
    [][\A r \in RequestIds :
           (/\ requests'[r] # requests[r]
            /\ requests'[r].admitted
            /\ FailsValidation(requests'[r].body))
           => /\ rateLimitStore' = rateLimitStore
              /\ store' = store
              /\ upstreamCalls' = upstreamCalls]_vars

\* C14: a request (with a model, guardrails off) whose messages field is
\* absent, is not a sequence or is an empty sequence is never dispatched to a
\* provider and is answered 400 MISSING_MESSAGES.
C14_MessagesRequiredNonEmpty ==
    \A r \in RequestIds :
        (/\ ~guardrailsConfig.enabled
         /\ requests[r].admitted
         /\ requests[r].body.json
         /\ requests[r].body.model # ""
         /\ requests[r].body.messages \in {"absent", "string", "empty"})
        => /\ requests[r].upstreamCalled = 0
           /\ requests[r].pc = "done" =>
                  requests[r].res = CreateErrorResponse("MISSING_MESSAGES", 400)

\* ---- upstream failures (C15, C16) ----

\* C15: whenever the upstream of a dispatched request answers with a non-2xx
\* status, the client receives (guardrails off) the error envelope with code
\* PROVIDER_ERROR and that status, for both providers, streaming or not.
C15_UpstreamErrorMirrored ==
    \A r \in RequestIds :
        (/\ ~guardrailsConfig.enabled
         /\ requests[r].pc = "done"
         /\ requests[r].upstreamCalled = 1
         /\ requests[r].upstreamStatus # 0
         /\ requests[r].upstreamStatus \notin 200..299)
        => requests[r].res =
               CreateErrorResponse("PROVIDER_ERROR", requests[r].upstreamStatus)

\* C16: a request is answered (guardrails off) with 504 and code TIMEOUT if and
\* only if its upstream call exceeded the configured timeout.
C16_TimeoutIffUpstreamTimedOut ==
    \A r \in RequestIds :
        (~guardrailsConfig.enabled /\ requests[r].pc = "done")
        => (requests[r].res = CreateErrorResponse("TIMEOUT", 504)
                <=> (requests[r].upstreamCalled = 1 /\ requests[r].timedOut))

\* ---- the error envelope (C17) ----

\* the rows of the error table; the status of PROVIDER_ERROR is the one the
\* upstream of the request returned
ErrorTable(r) ==
    {<<400, "MISSING_MODEL">>, <<400, "MISSING_MESSAGES">>,
     <<429, "RATE_LIMIT_EXCEEDED">>, <<400, "PII_DETECTED">>, <<502, "PII_DETECTED">>,
     <<504, "TIMEOUT">>, <<500, "INTERNAL_ERROR">>}
        \cup (IF requests[r].upstreamStatus # 0 /\ requests[r].upstreamStatus \notin 200..299
              THEN {<<requests[r].upstreamStatus, "PROVIDER_ERROR">>} ELSE {})

\* C17: every failure response has the error envelope as its body, and its
\* status and code are a row of the error table.
C17_FailuresInErrorTable ==
    \A r \in RequestIds :
        (requests[r].pc = "done" /\ requests[r].res.status \notin 200..299)
        => /\ requests[r].res.body.kind = "error"
           /\ requests[r].res.contentType = "application/json"
           /\ <<requests[r].res.status, requests[r].res.body.code>> \in ErrorTable(r)

\* C17 witness: one request refused by the rate limiter and another answered
\* with the status of its upstream.
C17_Witness ==
    \E r1 \in RequestIds, r2 \in RequestIds :
        /\ requests[r1].res = CreateErrorResponse("PROVIDER_ERROR", 503)
        /\ requests[r2].res = CreateErrorResponse("RATE_LIMIT_EXCEEDED", 429)
        /\ requests[r1].pc = "done" /\ requests[r2].pc = "done"

\* ---- the rate limiter in the pipeline (C18) ----

\* C18: a request the rate limiter rejects is answered 429 RATE_LIMIT_EXCEEDED
\* and no later stage runs for it: no cache lookup or store, no detector call
\* and no upstream call.
C18_RejectedStopsAtRateLimiter ==
    \A r \in RequestIds :
        (requests[r].pc \notin {"new", "absent"} /\ ~requests[r].admitted)
        => /\ requests[r].pc = "done"
           /\ requests[r].res = CreateErrorResponse("RATE_LIMIT_EXCEEDED", 429)
           /\ requests[r].cacheStatus = "none"
           /\ ~requests[r].found
           /\ \A k \in DOMAIN store : store[k].writer # r
           /\ requests[r].detectorCalls = << >>
           /\ requests[r].detections = << >>
           /\ requests[r].upstreamCalled = 0
           /\ requests[r].provider = ""

\* C18 witness: with guardrails on, a request is rejected while a cache entry
\* for its very path and body is in the store.
C18_Witness ==
    \E r \in RequestIds :
        /\ guardrailsConfig.enabled
        /\ requests[r].pc = "done"
        /\ ~requests[r].admitted
        /\ requests[r].res.status = 429
        /\ CacheKey(Path, requests[r].body.text) \in DOMAIN store

\* ---- the rate limiter before the cache (C34) ----

\* the step in which request r passes the rate limiter: nothing of the cache
\* has run yet; an admitted request has taken a token of its bucket, a
\* rejected one is answered 429 whatever the cache holds
LimiterStep(r) ==
    (requests[r].pc = "new" /\ requests'[r].pc # "new")
    => LET key == requests'[r].key
       IN /\ requests'[r].cacheStatus = "none"
          /\ store' = store
          /\ key \in DOMAIN rateLimitStore'
          /\ requests'[r].admitted
             => /\ requests'[r].pc = "cache"
                /\ rateLimitStore'[key].tokens <= maxTokens - 1
                /\ (key \in DOMAIN rateLimitStore
                    /\ rateLimitStore'[key].lastRefill = rateLimitStore[key].lastRefill)
                   => rateLimitStore'[key].tokens = rateLimitStore[key].tokens - 1
          /\ ~requests'[r].admitted
             => /\ requests'[r].pc = "done"
                /\ requests'[r].res = CreateErrorResponse("RATE_LIMIT_EXCEEDED", 429)

\* the step in which request r is served from the cache gives no token back
HitStep(r) ==
    (requests[r].pc = "cache" /\ requests'[r].cacheStatus = "hit")
    => /\ requests[r].admitted
       /\ rateLimitStore' = rateLimitStore
       /\ rateLimitStore[requests[r].key].tokens <= maxTokens - 1

\* C34: the rate limiter runs before the cache: a request served from a cache
\* hit has consumed one token of its key's bucket, and a request the rate
\* limiter rejects gets 429 even when a fresh cache entry for its path and
\* body exists.
C34_LimiterBeforeCache ==
    /\ [][\A r \in RequestIds : LimiterStep(r) /\ HitStep(r)]_vars
    /\ [](\A r \in RequestIds :
              requests[r].cacheStatus = "hit"
              => requests[r].admitted /\ requests[r].key \in DOMAIN rateLimitStore)

\* C34 witness: the second request of a key was admitted after a refill and
\* served from the cache; the bucket of the key is empty again.
C34_Witness ==
    \E r1 \in RequestIds, r2 \in RequestIds :
        /\ r1 # r2
        /\ requests[r1].key = requests[r2].key
        /\ requests[r2].pc = "done"
        /\ requests[r2].cacheStatus = "hit"
        /\ requests[r2].cached.writer = r1
        /\ rateLimitStore[requests[r2].key].tokens = 0
        /\ rateLimitStore[requests[r2].key].lastRefill = requests[r2].lookupAt

\* ---- a cache hit and the guardrails (C35) ----

\* C35: on a cache hit the guardrail stage does not run: the detector is
\* invoked neither on the request body nor on the replayed response, no
\* detection is recorded for the request, and the replayed response is
\* returned as it was stored, in block mode too.
C35_HitSkipsGuardrails ==
    \A r \in RequestIds :
        requests[r].cacheStatus = "hit"
        => /\ requests[r].pc = "done"
           /\ requests[r].detectorCalls = << >>
           /\ requests[r].detections = << >>
           /\ requests[r].reqLabels = << >> /\ requests[r].resLabels = << >>
           /\ requests[r].res = [status |-> requests[r].cached.status,
                                 contentType |-> requests[r].cached.contentType,
                                 body |-> requests[r].cached.body]

\* C35 witness: in block mode a request was served the completion that
\* another request, scanned at both stages, had stored.
C35_Witness ==
    \E r1 \in RequestIds, r2 \in RequestIds :
        /\ guardrailsConfig.enabled
        /\ guardrailsConfig.mode = "block"
        /\ requests[r1].detectorCalls = <<"request", "response">>
        /\ requests[r2].cacheStatus = "hit"
        /\ requests[r2].pc = "done"
        /\ requests[r2].cached.writer = r1
        /\ requests[r2].res.body = CompletionBody(r1, "openai")
        /\ requests[r2].detectorCalls = << >>

\* ---- the guardrails before validation (C37) ----

\* C37: the guardrail request stage runs before request validation: with
\* guardrails enabled the detector has been invoked on every request that
\* reaches the handler, those that validation rejects included, and in block
\* mode a request that lacks a model (or valid messages) and whose body has a
\* non-empty detection is answered 400 PII_DETECTED, not MISSING_MODEL or
\* MISSING_MESSAGES.
C37_GuardrailsBeforeValidation ==
    \A r \in RequestIds :
        (/\ guardrailsConfig.enabled
         /\ requests[r].admitted
         /\ FailsValidation(requests[r].body)
         /\ requests[r].pc \in {"handler", "guardRes", "done"})
        => /\ requests[r].detectorCalls # << >>
           /\ requests[r].detectorCalls[1] = "request"
           /\ (guardrailsConfig.mode = "block" /\ requests[r].reqLabels # << >>)
              => /\ requests[r].pc = "done"
                 /\ requests[r].res = CreateErrorResponse("PII_DETECTED", 400)
                 /\ requests[r].detectorCalls = <<"request">>
           /\ requests[r].res.body.code \in {"MISSING_MODEL", "MISSING_MESSAGES"}
              => requests[r].reqLabels = << >> \/ guardrailsConfig.mode = "log"

\* C37 witness: in block mode a request whose messages are a string, and in
\* whose body the detector found an entity, was answered 400 PII_DETECTED.
C37_Witness ==
    \E r \in RequestIds :
        /\ guardrailsConfig.mode = "block"
        /\ requests[r].body.messages = "string"
        /\ requests[r].reqLabels = <<"EMAIL">>
        /\ requests[r].pc = "done"
        /\ requests[r].res = CreateErrorResponse("PII_DETECTED", 400)

\* ---- a cache hit and the store (C38) ----

\* the step in which request r is served from the cache changes no entry
HitLeavesStore(r) ==
    (requests[r].pc = "cache" /\ requests'[r].cacheStatus = "hit")
    => /\ store' = store
       /\ requests'[r].pc = "done"

\* C38: a cache hit leaves the cache store unchanged: it neither extends the
\* expiry of the entry it replays nor writes any entry, so an entry is served
\* for at most one TTL after it was stored.
C38_HitLeavesStore ==
    /\ [][\A r \in RequestIds : HitLeavesStore(r)]_vars
    /\ [](\A r \in RequestIds :
              requests[r].cacheStatus = "hit"
              => /\ requests[r].lookupAt >= requests[r].cached.storedAt
                 /\ requests[r].lookupAt < requests[r].cached.storedAt + CacheTtl
                 /\ \A key \in DOMAIN store : store[key].writer # r)
    /\ [](\A key \in DOMAIN store :
              store[key].expires = store[key].storedAt + CacheTtl)

\* C38 witness: an entry was replayed some time after it was stored, and
\* when its TTL had run out it was still in the store with the expiry it was
\* given when stored.
C38_Witness ==
    \E r \in RequestIds :
        LET key == CacheKey(Path, requests[r].body.text)
        IN /\ requests[r].cacheStatus = "hit"
           /\ requests[r].pc = "done"
           /\ requests[r].lookupAt > requests[r].cached.storedAt
           /\ store[key] = requests[r].cached
           /\ now >= store[key].expires

\* ---- no retry (C19) ----

\* the upstream call of request r failed: it timed out, the transport failed
\* or the upstream answered with a non-2xx status
UpstreamFailed(r) ==
    /\ requests[r].upstreamCalled >= 1
    /\ requests[r].pc \notin {"handler", "upstream"}
    /\ requests[r].upstreamStatus \notin 200..299

\* C19: each request causes at most one upstream call, the upstream is called
\* for nothing else, and a request whose upstream call failed ends with an
\* error response without a second call.
C19_NoRetry ==
    /\ \A r \in RequestIds : requests[r].upstreamCalled <= 1
    /\ upstreamCalls = requests[1].upstreamCalled + requests[2].upstreamCalled
    /\ \A r \in RequestIds :
           (UpstreamFailed(r) /\ requests[r].pc = "done")
           => /\ requests[r].res.status \notin 200..299
              /\ requests[r].res.body.kind = "error"
              /\ requests[r].upstreamCalled = 1

\* C19 witness: both requests were dispatched once and answered with an error,
\* one after a timeout and one after a transport failure.
C19_Witness ==
    \E r1 \in RequestIds, r2 \in RequestIds :
        /\ requests[r1].pc = "done" /\ requests[r2].pc = "done"
        /\ requests[r1].timedOut /\ requests[r1].res.status = 504
        /\ UpstreamFailed(r2) /\ ~requests[r2].timedOut
        /\ requests[r2].upstreamStatus = 0 /\ requests[r2].res.status = 500
        /\ upstreamCalls = 2

\* ---- the guardrail response stage (C21, C22) ----

\* the response stage of request r takes its step: the detector has answered
ResponseStageActs(r) ==
    /\ requests[r].pc = "guardRes"
    /\ requests'[r].pc # "guardRes"

\* the step in which the response-stage detector returns labels for the
\* non-streaming response of r replaces that response by 502 PII_DETECTED
ResponseReplaced ==
    \A r \in RequestIds :
        (/\ ResponseStageActs(r)
         /\ guardrailsConfig.enabled
         /\ guardrailsConfig.mode = "block"
         /\ ~IsEventStream(requests[r].res)
         /\ requests'[r].resLabels # << >>)
        => /\ requests'[r].res = CreateErrorResponse("PII_DETECTED", 502)
           /\ requests'[r].res # requests[r].res
           /\ requests'[r].pc = "done"

\* C21: with guardrails enabled in block mode, whenever the response-stage
\* detector returns a non-empty list for a non-streaming response, the client
\* receives status 502 with code PII_DETECTED in place of the body that had
\* been produced.
C21_ResponseDetectionReplaces ==
    /\ [][ResponseReplaced]_vars
    /\ [](\A r \in RequestIds :
              (/\ guardrailsConfig.enabled
               /\ guardrailsConfig.mode = "block"
               /\ requests[r].resLabels # << >>)
              => /\ requests[r].pc = "done"
                 /\ requests[r].res.status = 502
                 /\ requests[r].res.contentType = "application/json"
                 /\ requests[r].res.body = ErrorBody("PII_DETECTED"))

\* C21 witness: the upstream answered 200 to a well-formed request, the
\* response-stage detector found an entity and the client holds the 502.
C21_Witness ==
    \E r \in RequestIds :
        /\ guardrailsConfig.mode = "block"
        /\ requests[r].upstreamStatus = 200
        /\ requests[r].reqLabels = << >>
        /\ requests[r].resLabels = <<"EMAIL">>
        /\ requests[r].pc = "done"
        /\ requests[r].res = CreateErrorResponse("PII_DETECTED", 502)

\* the response the client of r holds carries a streaming content type
HoldsStream(r) ==
    /\ requests[r].pc \notin {"new", "cache", "guardReq", "handler"}
    /\ Includes(requests[r].res.contentType, "text/event-stream")

\* C22: a response with a streaming content type is never passed to the
\* detector and is never replaced by a guardrail error, in either guardrail
\* mode: from the moment next() has returned it, the response stays as it is
\* and the detector is not called again for its request.
C22_StreamNeverScanned ==
    /\ [][\A r \in RequestIds :
              HoldsStream(r)
              => /\ requests'[r].res = requests[r].res
                 /\ requests'[r].detectorCalls = requests[r].detectorCalls
                 /\ requests'[r].detections = requests[r].detections]_vars
    /\ [](\A r \in RequestIds :
              HoldsStream(r)
              => /\ requests[r].resLabels = << >>
                 /\ requests[r].res.body.kind = "sse"
                 /\ \A i \in DOMAIN requests[r].detectorCalls :
                        requests[r].detectorCalls[i] # "response")

\* C22 witness: in block mode a request ended with the event stream (sent
\* with a charset parameter) that the downstream handler produced.
C22_Witness ==
    \E r \in RequestIds :
        /\ guardrailsConfig.enabled
        /\ guardrailsConfig.mode = "block"
        /\ requests[r].pc = "done"
        /\ requests[r].detectorCalls = <<"request">>
        /\ requests[r].res.contentType = "text/event-stream; charset=utf-8"
        /\ requests[r].res.body = SseBody(r, "openai")

\* ---- detector failures (C23) ----

\* the detector fails for request r in this step
DetectorFails(r) ==
    requests'[r].detectorFailures # requests[r].detectorFailures

\* a step in which the detector fails changes neither the response nor the
\* detection list of its request and hands the request on: from the request
\* stage to next(), from the response stage to the cache
FailureIsEmptyDetection ==
    \A r \in RequestIds :
        DetectorFails(r)
        => /\ requests'[r].res = requests[r].res
           /\ requests'[r].detections = requests[r].detections
           /\ requests[r].pc = "guardReq"
              => /\ requests'[r].pc = "handler"
                 /\ requests'[r].reqLabels = << >>
           /\ requests[r].pc = "guardRes"
              => /\ requests'[r].resLabels = << >>
                 /\ requests'[r].pc =
                        IF requests[r].res.status \in 200..299
                        THEN "cacheStore" ELSE "done"

\* C23: a failure of the detector is treated as an empty detection: at either
\* stage and in either mode it causes no rejection and no error response, and
\* the pipeline continues to the next stage; a request is answered
\* PII_DETECTED only after a detection.
C23_DetectorFailureIsEmpty ==
    /\ [][FailureIsEmptyDetection]_vars
    /\ [](\A r \in RequestIds :
              requests[r].res.body = ErrorBody("PII_DETECTED")
              => requests[r].reqLabels # << >> \/ requests[r].resLabels # << >>)

\* C23 witness: in block mode the detector failed at both stages of a request
\* and the client holds the completion of the downstream handler, which the
\* cache stored.
C23_Witness ==
    \E r \in RequestIds :
        /\ guardrailsConfig.mode = "block"
        /\ requests[r].detectorFailures = <<"request", "response">>
        /\ requests[r].pc = "done"
        /\ requests[r].res.status = 200
        /\ requests[r].res.body = CompletionBody(r, "openai")
        /\ CacheKey(Path, requests[r].body.text) \in DOMAIN store
        /\ store[CacheKey(Path, requests[r].body.text)].writer = r

\* ---- log mode (C24) ----

\* in log mode a step of the guardrails answers no request itself and leaves
\* the response of next() as it is
LogModeStep ==
    \A r \in RequestIds :
        (guardrailsConfig.enabled /\ guardrailsConfig.mode = "log")
        => /\ (requests[r].pc = "guardReq" /\ requests'[r].pc # "guardReq")
              => /\ requests'[r].pc = "handler"
                 /\ requests'[r].res = NoResponse
           /\ (requests[r].pc = "guardRes" /\ requests'[r].pc # "guardRes")
              => requests'[r].res = requests[r].res

\* C24: with guardrails enabled in log mode, no request and no response is
\* rejected or replaced by the guardrail stage: whatever the detector returns,
\* the client receives the status and body that the rest of the pipeline (the
\* downstream handler, or the cache on a hit) produced.
C24_LogModeNeverRejects ==
    /\ [][LogModeStep]_vars
    /\ [](\A r \in RequestIds :
              (/\ guardrailsConfig.enabled
               /\ guardrailsConfig.mode = "log"
               /\ requests[r].pc \in {"guardRes", "cacheStore", "done"})
              => /\ requests[r].res.body # ErrorBody("PII_DETECTED")
                 /\ \/ requests[r].res \in DownstreamResponses(r)
                    \/ /\ requests[r].cacheStatus = "hit"
                       /\ requests[r].res.status = requests[r].cached.status
                       /\ requests[r].res.body = requests[r].cached.body)

\* C24 witness: in log mode the detector found entities in the request and in
\* the response, and the client holds the completion of the downstream handler.
C24_Witness ==
    \E r \in RequestIds :
        /\ guardrailsConfig.enabled
        /\ guardrailsConfig.mode = "log"
        /\ requests[r].reqLabels = <<"EMAIL">>
        /\ requests[r].resLabels = <<"EMAIL">>
        /\ requests[r].pc = "done"
        /\ requests[r].res =
               [status |-> 200, contentType |-> "application/json",
                body |-> CompletionBody(r, "openai")]

\* ---- the detection list (C25) ----

\* one entry per non-empty detection of request r, the request stage first
DetectionsOf(r) ==
    (IF requests[r].reqLabels # << >>
     THEN <<[stage |-> "request", labels |-> requests[r].reqLabels]>> ELSE << >>)
    \o (IF requests[r].resLabels # << >>
        THEN <<[stage |-> "response", labels |-> requests[r].resLabels]>> ELSE << >>)

\* C25: for every request that passed through the enabled guardrail stage,
\* the detection list handed to the log record holds exactly one
\* {stage, labels} entry per non-empty detection, the request-stage entry
\* before the response-stage entry, in log mode and in block mode, blocked
\* requests included.
C25_DetectionsLogged ==
    \A r \in RequestIds :
        (/\ guardrailsConfig.enabled
         /\ requests[r].detectorCalls # << >>
         /\ requests[r].pc = "done")
        => /\ EntryGuardrails(requests[r].detections).list = DetectionsOf(r)
           /\ EntryGuardrails(requests[r].detections).present
                  <=> (requests[r].reqLabels # << >> \/ requests[r].resLabels # << >>)

\* C25 witness: in block mode one request was blocked at the request stage
\* and the response of another was replaced; each list holds its one entry.
C25_Witness ==
    \E r1 \in RequestIds, r2 \in RequestIds :
        /\ guardrailsConfig.mode = "block"
        /\ requests[r1].pc = "done" /\ requests[r2].pc = "done"
        /\ requests[r1].res.status = 400
        /\ requests[r1].detections = <<[stage |-> "request", labels |-> <<"EMAIL">>]>>
        /\ requests[r2].res.status = 502
        /\ requests[r2].detections = <<[stage |-> "response", labels |-> <<"EMAIL">>]>>

\* ---- what the cache holds (C26) ----

\* a response with a 2xx status and a content type that is no event stream
SuccessfulNonStreaming(status, contentType) ==
    /\ status \in 200..299
    /\ ~Includes(contentType, "text/event-stream")

\* a step that writes to the store writes the response a request holds, and
\* that response is successful and not streaming
WrittenFromSuccess ==
    \A key \in DOMAIN store' :
        (key \notin DOMAIN store \/ store'[key] # store[key])
        => \E r \in RequestIds :
               /\ requests[r].pc = "cacheStore"
               /\ key = CacheKey(Path, requests[r].body.text)
               /\ SuccessfulNonStreaming(requests[r].res.status,
                                         requests[r].res.contentType)
               /\ store'[key].status = requests[r].res.status
               /\ store'[key].contentType = requests[r].res.contentType
               /\ store'[key].body = requests[r].res.body

\* C26: every entry of the cache store was written from a response with a 2xx
\* status and a non-streaming content type: validation errors, guardrail
\* rejections (400 and 502), provider errors, timeouts and streaming
\* responses are never stored.
C26_OnlySuccessStored ==
    /\ [][WrittenFromSuccess]_vars
    /\ [](\A key \in DOMAIN store :
              /\ SuccessfulNonStreaming(store[key].status, store[key].contentType)
              /\ store[key].body.kind = "completion")
    /\ [](\A r \in RequestIds :
              (/\ requests[r].pc = "done"
               /\ requests[r].cacheStatus = "miss"
               /\ ~SuccessfulNonStreaming(requests[r].res.status,
                                          requests[r].res.contentType))
              => \A key \in DOMAIN store : store[key].writer # r)

\* C26 witness: one request ended with a stored completion, another with a
\* 200 event stream under another key, which the store does not hold.
C26_Witness ==
    \E r1 \in RequestIds, r2 \in RequestIds :
        /\ requests[r1].pc = "done" /\ requests[r2].pc = "done"
        /\ requests[r1].res.body = CompletionBody(r1, "openai")
        /\ store[CacheKey(Path, requests[r1].body.text)].writer = r1
        /\ requests[r2].res.status = 200
        /\ requests[r2].res.body = SseBody(r2, "openai")
        /\ CacheKey(Path, requests[r2].body.text) \notin DOMAIN store

\* ---- no eviction (C27) ----

\* a step keeps every key of the store, and an entry that changes is
\* overwritten by the store step of a request with the identical key
EntriesKept ==
    \A key \in DOMAIN store :
        /\ key \in DOMAIN store'
        /\ store'[key] # store[key]
           => \E r \in RequestIds :
                  /\ requests[r].pc = "cacheStore"
                  /\ requests'[r].pc = "done"
                  /\ key = CacheKey(Path, requests[r].body.text)
                  /\ store'[key].writer = r
                  /\ store'[key].storedAt = now
                  /\ store'[key].storedAt >= store[key].storedAt

\* C27: request processing never removes a cache entry: the set of keys in
\* the store never shrinks, an expired entry stays in the store, and an entry
\* changes only by being overwritten by a later store under the identical key.
C27_NoEviction == [][EntriesKept]_vars

\* C27 witness: a request found the entry of its key expired and ended with a
\* response that is not stored; the expired entry of the other request is
\* still in the store.
C27_Witness ==
    \E r \in RequestIds :
        LET key == CacheKey(Path, requests[r].body.text)
        IN /\ requests[r].pc = "done"
           /\ requests[r].cacheStatus = "miss"
           /\ requests[r].found
           /\ requests[r].res.status \notin 200..299
           /\ key \in DOMAIN store
           /\ store[key].writer # r
           /\ store[key].expires <= requests[r].lookupAt

\* ---- no single flight (C28) ----

\* requests r1 and r2 are in flight together for one cache key: both missed
\* the cache, both passed the validation of the handler and both wait for
\* the upstream
InFlightTogether(r1, r2) ==
    /\ r1 # r2
    /\ CacheKey(Path, requests[r1].body.text) = CacheKey(Path, requests[r2].body.text)
    /\ \A r \in {r1, r2} :
           /\ requests[r].cacheStatus = "miss"
           /\ requests[r].pc = "upstream"

\* C28: there is no single-flight de-duplication: two concurrent requests
\* with an identical cache key that have both missed the cache have each
\* dispatched an upstream call of their own (and such a state is reachable:
\* the witness).
C28_NoSingleFlight ==
    \A r1 \in RequestIds, r2 \in RequestIds :
        InFlightTogether(r1, r2)
        => /\ requests[r1].upstreamCalled = 1
           /\ requests[r2].upstreamCalled = 1
           /\ upstreamCalls = 2

\* C28 witness: both requests carry the same bytes, both missed and both
\* upstream calls are in flight.
C28_Witness ==
    /\ requests[1].body.text = "gpt" /\ requests[2].body.text = "gpt"
    /\ requests[1].cacheStatus = "miss" /\ requests[2].cacheStatus = "miss"
    /\ requests[1].pc = "upstream" /\ requests[2].pc = "upstream"
    /\ requests[1].upstreamCalled = 1 /\ requests[2].upstreamCalled = 1
    /\ upstreamCalls = 2
    /\ store = << >>

(***************************************************************************)
(* One call of an adapter: fetch under the AbortController and its timer,   *)
(* then the delivery of the response body.                                  *)
(*                                                                         *)
(* chatCompletions arms a timer of timeout_ms that aborts the fetch, and     *)
(* clears it as soon as fetch resolves (the status and headers are there)   *)
(* or rejects.  The body is read afterwards: by the handler for the OpenAI  *)
(* adapter, by the adapter (response.json(), or the reader loop of the      *)
(* stream) and then by the handler for the Anthropic one.                   *)
(***************************************************************************)
TimeoutMs == 30000

Providers == {"openai", "anthropic"}

\* the time at which the timer of the call fires
Deadline == adapterCall.startedAt + TimeoutMs

\* the timer is armed and its time has come
TimerDue == adapterCall.timerArmed /\ now >= Deadline

InitCall ==
    /\ now = 0
    /\ maxTokens = 1
    /\ rateLimitStore = << >>
    /\ rlLog = << >>
    /\ transformPc = "idle"
    /\ openaiRequest = << >>
    /\ anthropicRequest = << >>
    /\ anthropicResponse = << >>
    /\ openaiResponse = << >>
    /\ streamPc = "idle"
    /\ upstream = << >>
    /\ wire = << >>
    /\ frames = << >>
    /\ guardrailsConfig = [enabled |-> FALSE, mode |-> "log"]
    /\ store = << >>
    /\ requests = << >>
    /\ upstreamCalls = 0
    /\ adapterCall \in [provider : Providers, stream : BOOLEAN, pc : {"idle"},
                 startedAt : {0}, timerArmed : {FALSE}, status : {0},
                 settledAt : {0}]

\* const timeoutId = setTimeout(() => controller.abort(), this.timeoutMs);
\* fetch(..., { signal: controller.signal })
CallStarts ==
    /\ adapterCall.pc = "idle"
    /\ adapterCall' = [adapterCall EXCEPT !.pc = "fetching", !.startedAt = now,
                                          !.timerArmed = TRUE]
    /\ UNCHANGED <<rlVars, transformVars, streamVars, pipeVars>>

\* time passes while the upstream is awaited; a timer that is due runs first,
\* and the clock does not step over the time of an armed timer
CallTick ==
    /\ adapterCall.pc \in {"idle", "fetching", "reading"}
    /\ ~TimerDue
    /\ now + TickMs <= MaxTicks * TickMs
    /\ now' = IF adapterCall.timerArmed /\ Deadline < now + TickMs THEN Deadline
              ELSE now + TickMs
    /\ UNCHANGED <<maxTokens, rateLimitStore, rlLog, transformVars, streamVars, pipeVars,
                   adapterCall>>

\* the timer fires: controller.abort(); fetch rejects with an AbortError, the
\* catch block clears the timer and throws Error('Request timeout')
TimerFires ==
    /\ adapterCall.pc = "fetching"
    /\ TimerDue
    /\ adapterCall' = [adapterCall EXCEPT !.pc = "threw", !.timerArmed = FALSE,
                                          !.settledAt = now]
    /\ UNCHANGED <<rlVars, transformVars, streamVars, pipeVars>>

\* fetch resolves with the status and headers: clearTimeout(timeoutId); the
\* body is still to be delivered
FetchResolves(status) ==
    /\ adapterCall.pc = "fetching"
    /\ ~TimerDue
    /\ adapterCall' = [adapterCall EXCEPT !.pc = "reading", !.timerArmed = FALSE,
                                          !.status = status]
    /\ UNCHANGED <<rlVars, transformVars, streamVars, pipeVars>>

\* fetch rejects for another reason: the catch block clears the timer and
\* throws the error on
FetchRejects ==
    /\ adapterCall.pc = "fetching"
    /\ ~TimerDue
    /\ adapterCall' = [adapterCall EXCEPT !.pc = "threw", !.timerArmed = FALSE,
                                          !.settledAt = now]
    /\ UNCHANGED <<rlVars, transformVars, streamVars, pipeVars>>

\* the upstream finishes delivering the body (or the stream): response.json(),
\* response.text() or the reader loop completes
BodyDelivered ==
    /\ adapterCall.pc = "reading"
    /\ adapterCall' = [adapterCall EXCEPT !.pc = "delivered", !.settledAt = now]
    /\ UNCHANGED <<rlVars, transformVars, streamVars, pipeVars>>

NextCall ==
    \/ CallStarts
    \/ CallTick
    \/ TimerFires
    \/ \E status \in {200, 503} : FetchResolves(status)
    \/ FetchRejects
    \/ BodyDelivered

SpecCall == InitCall /\ [][NextCall]_vars

\* C20: every upstream call is bounded by the configured timeout for its whole
\* duration, the reading of the body or of the stream included: no call is
\* still awaited past the timeout, and none settles later than that.
C20_CallBoundedByTimeout ==
    /\ adapterCall.pc \in {"fetching", "reading"} => now <= Deadline
    /\ adapterCall.pc \in {"threw", "delivered"} => adapterCall.settledAt <= Deadline

====
